---- MODULE Spec2Model ----
(***************************************************************************)
(* Package inventory reconciliation of the PatchMon agent:                 *)
(*   - CombinePackageData and Manager.GetPackages (internal/packages)      *)
(*   - WindowsUpdateManager.searchUpdates / parseUpdate                    *)
(*   - APTManager.parseInstalledPackages / parseAPTUpgrade                 *)
(*   - DNFManager.GetPackages / parseInstalledPackages /                   *)
(*     parseUpgradablePackages                                             *)
(*   - reboot detection, update sources, and updateAgent                   *)
(*                                                                         *)
(* Go strings are sequences of one-character strings, so that trimming,    *)
(* splitting and prefix tests are computed and not assumed.  A Go slice is *)
(* a record [isNil, elems]: a nil slice and an empty non-nil slice differ. *)
(* A Go map is a function whose DOMAIN is its key set; the order in which  *)
(* range visits a map is a nondeterministic choice.                        *)
(***************************************************************************)
EXTENDS Integers, Sequences, FiniteSets, TLC

VARIABLES
    \* CombinePackageData: its two arguments, its result, and the position
    installedPackages, upgradablePackages, packages, cpc,
    \* Manager.GetPackages: position, the values the two searches returned,
    \* the locals installed and available, and the returned list and error
    mpc, instRet, availRet, installed, available, allPackages, retErr,
    \* WindowsUpdateManager.searchUpdates: position, criteria, the Count read,
    \* the loop index, the packages slice being built and the value returned;
    \* wua is what the Windows Update Agent answered during the search, kept
    \* when the search is observed on its own
    spc, criteria, count, idx, found, searchRet, wua,
    \* APTManager.parseInstalledPackages: the map being built, the package
    \* currentPkg points to, the lines scanned so far, the line scanner.Text()
    \* returned last and the branch the loop body took for it
    aptInstalled, currentPkg, instScanned, instLine, instBranch,
    \* APTManager.parseAPTUpgrade: the packages slice, the lines scanned so
    \* far, the line scanned last and the branch the loop body took for it
    aptUpgradable, upgScanned, upgLine, upgBranch,
    \* DNFManager.parseInstalledPackages: the output being parsed again and
    \* again, the map its first parse returned, the map the latest parse
    \* returned, the map the latest call of any output built, the number of
    \* parses of the output and, call by call, the manager each call ran on
    dnfOutput, dnfFirst, dnfResult, dnfPrior, dnfCalls, dnfLog,
    \* Detector.CheckRebootRequired: what the system answers, the position and
    \* the two values returned
    rebootEnv, rpc, needsReboot, rebootReason,
    \* WindowsUpdateSourceManager.GetSources and Manager.GetRepositories: the
    \* registry, the position, and what each of the two returned last
    registry, srpc, sources, repositories,
    \* WindowsUpdateManager.isSecurityUpdate called on one update: the
    \* update, the position and the value returned
    secUpdate, secPc, secResult,
    \* DNFManager.parseUpgradablePackages run on one check-update output
    dnfUpg,
    \* DNFManager.GetPackages
    dnfGet,
    \* WindowsUpdateManager.parseUpdate called on one result item
    parseCall,
    \* WindowsUpdateManager.searchUpdates, call by call: the thread, COM, the
    \* COM objects held and the deferred calls
    com,
    \* updateAgent: the files at and next to the executable path
    upd

combineVars == <<installedPackages, upgradablePackages, packages, cpc>>
managerVars == <<mpc, instRet, availRet, installed, available, allPackages, retErr>>
searchVars == <<spc, criteria, count, idx, found, searchRet, wua>>
aptInstVars == <<aptInstalled, currentPkg, instScanned, instLine, instBranch>>
aptUpgVars == <<aptUpgradable, upgScanned, upgLine, upgBranch>>
dnfVars == <<dnfOutput, dnfFirst, dnfResult, dnfPrior, dnfCalls, dnfLog>>
\* the variables of the parts modelled after the package parsers
rebootVars == <<rebootEnv, rpc, needsReboot, rebootReason>>
sourceVars == <<registry, srpc, sources, repositories>>
securityVars == <<secUpdate, secPc, secResult>>
\* the parts modelled last, each with its state in one record
lateVars == <<dnfUpg, dnfGet, parseCall, com, upd>>
restVars == <<dnfVars, rebootVars, sourceVars, securityVars, lateVars>>
vars == <<installedPackages, upgradablePackages, packages, cpc,
          mpc, instRet, availRet, installed, available, allPackages, retErr,
          spc, criteria, count, idx, found, searchRet, wua,
          aptInstalled, currentPkg, instScanned, instLine, instBranch,
          aptUpgradable, upgScanned, upgLine, upgBranch,
          dnfOutput, dnfFirst, dnfResult, dnfPrior, dnfCalls, dnfLog,
          rebootEnv, rpc, needsReboot, rebootReason,
          registry, srpc, sources, repositories,
          secUpdate, secPc, secResult,
          dnfUpg, dnfGet, parseCall, com, upd>>

-----------------------------------------------------------------------------
(* Bounds *)
MaxUpgradable == 2
\* the largest Count a Windows Update search reports
MaxUpdates == 2
\* the lines of dpkg-query output, and the words of a line
MaxLines == 2
MaxWords == 3
\* the lines of the apt-get simulation, and the fields of a line
MaxUpgLines == 1
MaxFields == 5

-----------------------------------------------------------------------------
(* Strings and slices *)
EmptyStr == <<>>

NilSlice == [isNil |-> TRUE, elems |-> <<>>]
MakeSlice == [isNil |-> FALSE, elems |-> <<>>]
AppendSlice(s, e) == [isNil |-> FALSE, elems |-> Append(s.elems, e)]

\* models.Package
Package(name, description, current, avail, needs, security) ==
    [Name |-> name, Description |-> description, CurrentVersion |-> current,
     AvailableVersion |-> avail, NeedsUpdate |-> needs,
     IsSecurityUpdate |-> security]

\* All orders in which range can visit the keys of a map
Orders(S) == {o \in [1..Cardinality(S) -> S] : \A i, j \in DOMAIN o : i # j => o[i] # o[j]}

-----------------------------------------------------------------------------
(* The parts of the program that a specification leaves untouched *)
NoReturn == [pkgs |-> NilSlice, err |-> "nil"]

CombineIdle ==
    /\ installedPackages = <<>> /\ upgradablePackages = NilSlice
    /\ packages = NilSlice /\ cpc = "idle"
ManagerIdle ==
    /\ mpc = "idle" /\ instRet = NoReturn /\ availRet = NoReturn
    /\ installed = NilSlice /\ available = NilSlice
    /\ allPackages = NilSlice /\ retErr = "nil"
\* the answers of the Windows Update Agent: the result of CoInitializeEx, the
\* call that failed ("none" when none did) and the result items enumerated
Answers(on, coInit, failed, items) ==
    [on |-> on, coInit |-> coInit, failed |-> failed, items |-> items]
Unobserved == Answers(FALSE, "none", "none", <<>>)
Observing == Answers(TRUE, "none", "none", <<>>)
SearchIdle ==
    /\ spc = "idle" /\ criteria = EmptyStr /\ count = 0 /\ idx = 0
    /\ found = NilSlice /\ searchRet = NoReturn /\ wua = Unobserved
NoPackage == [isNil |-> TRUE]
AptInstIdle ==
    /\ aptInstalled = <<>> /\ currentPkg = NoPackage /\ instScanned = 0
    /\ instLine = EmptyStr /\ instBranch = "idle"
AptUpgIdle ==
    /\ aptUpgradable = NilSlice /\ upgScanned = 0
    /\ upgLine = EmptyStr /\ upgBranch = "idle"
DnfIdle ==
    /\ dnfOutput = <<>> /\ dnfFirst = <<>> /\ dnfResult = <<>>
    /\ dnfPrior = <<>> /\ dnfCalls = 0 /\ dnfLog = <<>>
RebootIdle ==
    /\ rebootEnv = [os |-> "none"] /\ rpc = "idle"
    /\ needsReboot = FALSE /\ rebootReason = EmptyStr
NoSources == [repos |-> NilSlice, err |-> "nil"]
SourceIdle ==
    /\ registry = [policy |-> "none"] /\ srpc = "idle"
    /\ sources = NoSources /\ repositories = NoSources
SecurityIdle ==
    /\ secUpdate = [MsrcSeverity |-> "none"] /\ secPc = "idle" /\ secResult = FALSE
Idle == [pc |-> "idle"]
LateIdle == dnfUpg = Idle /\ dnfGet = Idle /\ parseCall = Idle /\ com = Idle /\ upd = Idle
RestIdle == DnfIdle /\ RebootIdle /\ SourceIdle /\ SecurityIdle /\ LateIdle

-----------------------------------------------------------------------------
(* CombinePackageData *)

\* packages := make([]models.Package, 0)
NewPackagesNil == NilSlice
NewPackages == MakeSlice

\* the description an upgradable entry is emitted with
EnrichedOverwrite(inst, pkg) ==
    IF pkg.Name \in DOMAIN inst
        THEN [pkg EXCEPT !.Description = inst[pkg.Name].Description]
        ELSE pkg
Enriched(inst, pkg) ==
    IF pkg.Name \in DOMAIN inst /\ pkg.Description = EmptyStr
        THEN [pkg EXCEPT !.Description = inst[pkg.Name].Description]
        ELSE pkg

\* first loop: every upgradable entry is appended, its name recorded
RECURSIVE UpgradableLoop(_, _, _, _)
UpgradableLoop(inst, upgradable, i, acc) ==
    IF i > Len(upgradable.elems) THEN acc
    ELSE LET pkg == Enriched(inst, upgradable.elems[i])
         IN UpgradableLoop(inst, upgradable, i + 1,
                [packages |-> AppendSlice(acc.packages, pkg),
                 upgradableMap |-> acc.upgradableMap \cup {pkg.Name}])

\* upgradableMap[packageName]
CoveredNever(upgradableMap, packageName) == FALSE
Covered(upgradableMap, packageName) == packageName \in upgradableMap

\* the package emitted for an installed entry that is not upgradable
InstalledOnlyCopied(pkg) == pkg
InstalledOnlyNeeds(pkg) ==
    Package(pkg.Name, EmptyStr, pkg.CurrentVersion, EmptyStr, TRUE, FALSE)
InstalledOnly(pkg) ==
    Package(pkg.Name, EmptyStr, pkg.CurrentVersion, EmptyStr, FALSE, FALSE)

\* second loop: range over the installed map in the order ord
RECURSIVE InstalledLoop(_, _, _, _, _)
InstalledLoop(inst, upgradableMap, ord, i, acc) ==
    IF i > Len(ord) THEN acc
    ELSE InstalledLoop(inst, upgradableMap, ord, i + 1,
            IF ~Covered(upgradableMap, ord[i])
                THEN AppendSlice(acc, InstalledOnly(inst[ord[i]]))
                ELSE acc)

CombineInstalledFirst(inst, upgradable, ord) ==
    LET first == UpgradableLoop(inst, upgradable, 1,
                    [packages |-> NewPackages, upgradableMap |-> {}])
        only == InstalledLoop(inst, first.upgradableMap, ord, 1, NewPackages)
    IN [isNil |-> FALSE, elems |-> only.elems \o first.packages.elems]
CombinePackageData(inst, upgradable, ord) ==
    LET first == UpgradableLoop(inst, upgradable, 1,
                    [packages |-> NewPackages, upgradableMap |-> {}])
    IN InstalledLoop(inst, first.upgradableMap, ord, 1, first.packages)

-----------------------------------------------------------------------------
(* Inputs of CombinePackageData *)
Names == {<<"a">>, <<"b">>}
Descriptions == {EmptyStr, <<"d">>}
UpgDescriptions == {EmptyStr, <<"u">>}

\* the versions of an installed entry: as the parsers fill them, and with an
\* available version set
InstalledVersions ==
    {[current |-> <<"1">>, avail |-> EmptyStr], [current |-> <<"3">>, avail |-> <<"9">>]}
InstalledEntries(name, needs) ==
    {Package(name, d, v.current, v.avail, n, s) :
        d \in Descriptions, v \in InstalledVersions, n \in needs, s \in BOOLEAN}
InstalledMaps(needs) ==
    UNION {{m \in [K -> UNION {InstalledEntries(k, needs) : k \in K}] :
                \A k \in K : m[k].Name = k} : K \in SUBSET Names}

UpgradableEntries(needs) ==
    {Package(nm, d, <<"1">>, <<"2">>, n, FALSE) :
        nm \in Names, d \in UpgDescriptions, n \in needs}
UpgradableSlices(needs) ==
    {NilSlice} \cup
    UNION {{[isNil |-> FALSE, elems |-> e] : e \in [1..n -> UpgradableEntries(needs)]} :
                n \in 0..MaxUpgradable}

InitCombineWith(instNeeds, upgNeeds) ==
    /\ installedPackages \in InstalledMaps(instNeeds)
    /\ upgradablePackages \in UpgradableSlices(upgNeeds)
    /\ packages = NilSlice
    /\ cpc = "call"
    /\ ManagerIdle /\ SearchIdle /\ AptInstIdle /\ AptUpgIdle /\ RestIdle

\* every value of the fields, as for any caller of the exported function
InitCombine == InitCombineWith(BOOLEAN, BOOLEAN)
\* the entries the APT and DNF parsers produce
InitCombineParsed == InitCombineWith({FALSE}, {TRUE})

Combine ==
    /\ cpc = "call"
    /\ \E ord \in Orders(DOMAIN installedPackages) :
          packages' = CombinePackageData(installedPackages, upgradablePackages, ord)
    /\ cpc' = "done"
    /\ UNCHANGED <<installedPackages, upgradablePackages>>
    /\ UNCHANGED <<managerVars, searchVars, aptInstVars, aptUpgVars, restVars>>

NextCombine == Combine

SpecCombine == InitCombine /\ [][NextCombine]_vars
SpecCombineParsed == InitCombineParsed /\ [][NextCombine]_vars

-----------------------------------------------------------------------------
(* Properties of CombinePackageData *)

Upg == upgradablePackages.elems
Out == packages.elems
\* names that are a key of installed and the name of an upgradable entry
CommonNames == {n \in DOMAIN installedPackages : \E i \in DOMAIN Upg : Upg[i].Name = n}
Occurrences(n) == Cardinality({i \in DOMAIN Out : Out[i].Name = n})

\* C1: the length of the result is at most len(installed)+len(upgradable) and
\* equals that sum minus the number of distinct names common to both inputs.
C1_Length ==
    cpc = "done" =>
        /\ Len(Out) <= Cardinality(DOMAIN installedPackages) + Len(Upg)
        /\ Len(Out) = Cardinality(DOMAIN installedPackages) + Len(Upg)
                        - Cardinality(CommonNames)
C1_Witness ==
    /\ cpc = "done"
    /\ Cardinality(DOMAIN installedPackages) = 2
    /\ Len(Upg) = 2 /\ Upg[1].Name = Upg[2].Name
    /\ Cardinality(CommonNames) = 1

C3_CommonNameOnce ==
    cpc = "done" =>
        \A n \in CommonNames :
            /\ Occurrences(n) = 1
            /\ \A i \in DOMAIN Out : Out[i].Name = n => Out[i].NeedsUpdate

\* C4: an upgradable entry with an empty description whose name is installed
\* with a non-empty description is emitted with the installed description; an
\* upgradable entry with a non-empty description keeps its own.
C4_Description ==
    cpc = "done" =>
        /\ Len(Out) >= Len(Upg)
        /\ \A i \in DOMAIN Upg :
              /\ (/\ Upg[i].Description = EmptyStr
                  /\ Upg[i].Name \in DOMAIN installedPackages
                  /\ installedPackages[Upg[i].Name].Description # EmptyStr)
                 => Out[i].Description = installedPackages[Upg[i].Name].Description
              /\ Upg[i].Description # EmptyStr
                 => Out[i].Description = Upg[i].Description
C4_Witness ==
    /\ cpc = "done"
    /\ Len(Upg) = 2
    /\ Upg[1].Description = EmptyStr /\ Upg[1].Name \in DOMAIN installedPackages
    /\ installedPackages[Upg[1].Name].Description # EmptyStr
    /\ Out[1].Description # EmptyStr
    /\ Upg[2].Description # EmptyStr /\ Upg[2].Name \in DOMAIN installedPackages
    /\ installedPackages[Upg[2].Name].Description # Upg[2].Description

\* C6: the result is never a nil list, and it is the empty list when the
\* installed map and the upgradable sequence are both empty.
C6_NeverNil ==
    cpc = "done" =>
        /\ packages.isNil = FALSE
        /\ (DOMAIN installedPackages = {} /\ Upg = <<>>) => Out = <<>>
C6_Witness ==
    /\ cpc = "done"
    /\ DOMAIN installedPackages = {}
    /\ upgradablePackages = NilSlice
    /\ packages = MakeSlice

\* the names of the upgradable entries
UpgNames == {Upg[i].Name : i \in DOMAIN Upg}

\* C19: the entries derived from upgradable come first, in the order of the
\* upgradable sequence, and every installed-only entry comes after the last
\* of them.
C19_Ordered ==
    cpc = "done" =>
        /\ Len(Out) >= Len(Upg)
        /\ \A i \in DOMAIN Upg :
              Out[i] = [Upg[i] EXCEPT !.Description = Out[i].Description]
        /\ \A i \in DOMAIN Out :
              i > Len(Upg) =>
                 /\ Out[i].Name \in DOMAIN installedPackages \ UpgNames
                 /\ Out[i].CurrentVersion = installedPackages[Out[i].Name].CurrentVersion
\* two upgradable entries named b and an installed map of a and b: the
\* result is the two entries of b and then the installed-only a
C19_Witness ==
    /\ cpc = "done"
    /\ Len(Upg) = 2 /\ Upg[1].Name = <<"b">> /\ Upg[2].Name = <<"b">>
    /\ Upg[1].Description # Upg[2].Description
    /\ DOMAIN installedPackages = {<<"a">>, <<"b">>}
    /\ Len(Out) = 3 /\ Out[3].Name = <<"a">>

\* C20: an installed entry whose name is not the name of an upgradable entry
\* is emitted exactly once, with its name and currentVersion, with
\* needsUpdate = false, isSecurityUpdate = false, an empty description and an
\* empty availableVersion, whatever the installed entry holds in those fields.
C20_InstalledOnly ==
    cpc = "done" =>
        \A n \in DOMAIN installedPackages \ UpgNames :
            /\ Occurrences(n) = 1
            /\ \A i \in DOMAIN Out :
                  Out[i].Name = n =>
                     Out[i] = Package(n, EmptyStr, installedPackages[n].CurrentVersion,
                                      EmptyStr, FALSE, FALSE)
\* an installed-only entry that held a description, an available version,
\* needsUpdate and isSecurityUpdate
C20_Witness ==
    /\ cpc = "done"
    /\ Len(Upg) = 1 /\ Upg[1].Name = <<"a">>
    /\ <<"b">> \in DOMAIN installedPackages
    /\ installedPackages[<<"b">>] = Package(<<"b">>, <<"d">>, <<"3">>, <<"9">>, TRUE, TRUE)
    /\ Len(Out) = 2 /\ Out[2].CurrentVersion = <<"3">>

-----------------------------------------------------------------------------
(* strings.Contains, fmt's %d *)
HasPrefix(s, prefix) ==
    Len(s) >= Len(prefix) /\ SubSeq(s, 1, Len(prefix)) = prefix
HasSuffix(s, suffix) ==
    Len(s) >= Len(suffix) /\ SubSeq(s, Len(s) - Len(suffix) + 1, Len(s)) = suffix
Contains(s, sub) ==
    \E i \in 1..(Len(s) - Len(sub) + 1) : SubSeq(s, i, i + Len(sub) - 1) = sub

Digit(d) == <<"0", "1", "2", "3", "4", "5", "6", "7", "8", "9">>[d + 1]
RECURSIVE FormatInt(_)
FormatInt(n) == IF n < 10 THEN <<Digit(n)>> ELSE FormatInt(n \div 10) \o <<Digit(n % 10)>>

-----------------------------------------------------------------------------
(* The Windows Update Agent as the agent reads it.  A property read either  *)
(* fails or yields a value.                                                 *)
ReadErr == [err |-> TRUE, val |-> EmptyStr]
Read(v) == [err |-> FALSE, val |-> v]

CriteriaInstalled == <<"I", "s", "I", "n", "s", "t", "a", "l", "l", "e", "d", "=", "1">>
CriteriaAvailable == <<"I", "s", "I", "n", "s", "t", "a", "l", "l", "e", "d", "=", "0", " ", "A", "N", "D", " ", "I", "s", "H", "i", "d", "d", "e", "n", "=", "0">>
SecurityUpdates == <<"S", "e", "c", "u", "r", "i", "t", "y", " ", "U", "p", "d", "a", "t", "e", "s">>
CriticalUpdates == <<"C", "r", "i", "t", "i", "c", "a", "l", " ", "U", "p", "d", "a", "t", "e", "s">>

\* getKBArticleID: the first KB article id, or "" when any read fails
GetKBArticleIDReadable(update) ==
    LET kbs == update.KBArticleIDs
        readable == {i \in DOMAIN kbs.items : ~kbs.items[i].err}
    IN IF kbs.err \/ kbs.countErr \/ readable = {} THEN EmptyStr
       ELSE kbs.items[CHOOSE i \in readable : \A j \in readable : i <= j].val
GetKBArticleID(update) ==
    IF update.KBArticleIDs.err THEN EmptyStr
    ELSE IF update.KBArticleIDs.countErr \/ Len(update.KBArticleIDs.items) = 0 THEN EmptyStr
    ELSE IF update.KBArticleIDs.items[1].err THEN EmptyStr
    ELSE update.KBArticleIDs.items[1].val

\* getUpdateVersion: "<updateID>.<revision>", "rev.<revision>" or ""
GetUpdateVersion(update) ==
    IF update.Identity.err THEN EmptyStr
    ELSE IF update.Identity.RevisionNumber.err THEN EmptyStr
    ELSE IF update.Identity.UpdateID.err
        THEN <<"r", "e", "v", ".">> \o FormatInt(update.Identity.RevisionNumber.val)
    ELSE update.Identity.UpdateID.val \o <<".">>
            \o FormatInt(update.Identity.RevisionNumber.val)

\* the loop of isSecurityUpdate over the categories, from index i
CategoryLoopFirst(cats, i) ==
    /\ i <= Len(cats)
    /\ ~cats[i].err /\ ~cats[i].Name.err
    /\ cats[i].Name.val \in {SecurityUpdates, CriticalUpdates}
RECURSIVE CategoryLoop(_, _)
CategoryLoop(cats, i) ==
    IF i > Len(cats) THEN FALSE
    ELSE IF cats[i].err THEN CategoryLoop(cats, i + 1)
    ELSE IF cats[i].Name.err THEN CategoryLoop(cats, i + 1)
    ELSE IF cats[i].Name.val = SecurityUpdates \/ cats[i].Name.val = CriticalUpdates THEN TRUE
    ELSE CategoryLoop(cats, i + 1)

IsSecurityUpdate(update) ==
    IF ~update.MsrcSeverity.err /\ update.MsrcSeverity.val # EmptyStr THEN TRUE
    ELSE IF update.Categories.err THEN FALSE
    ELSE IF update.Categories.countErr THEN FALSE
    ELSE CategoryLoop(update.Categories.items, 1)

\* parseUpdate: nil when the title cannot be read, else the package
ParseUpdate(update, crit) ==
    IF update.Title.err THEN NoPackage
    ELSE LET title == update.Title.val
             kbID == GetKBArticleID(update)
             version == GetUpdateVersion(update)
             isSecurityUpdate == IsSecurityUpdate(update)
             name == IF kbID # EmptyStr THEN <<"K", "B">> \o kbID ELSE title
             isInstalled == Contains(crit, CriteriaInstalled)
         IN [isNil |-> FALSE,
             pkg |-> Package(name, title,
                        IF isInstalled THEN version ELSE EmptyStr,
                        IF isInstalled THEN EmptyStr ELSE version,
                        ~isInstalled, isSecurityUpdate)]

-----------------------------------------------------------------------------
(* The result items a search may hold *)
Update(title, kbs, identity, severity, categories) ==
    [Title |-> title, KBArticleIDs |-> kbs, Identity |-> identity,
     MsrcSeverity |-> severity, Categories |-> categories]
Collection(items) == [err |-> FALSE, countErr |-> FALSE, items |-> items]
CollectionErr == [err |-> TRUE, countErr |-> FALSE, items |-> <<>>]
CollectionCountErr == [err |-> FALSE, countErr |-> TRUE, items |-> <<>>]
IdentityOf(rev, id) == [err |-> FALSE, RevisionNumber |-> rev, UpdateID |-> id]
IdentityErr == [err |-> TRUE, RevisionNumber |-> ReadErr, UpdateID |-> ReadErr]
Category(name) == [err |-> FALSE, Name |-> name]

KBReads == {CollectionErr, Collection(<<>>), Collection(<<Read(<<"5">>)>>)}
IdentityReads ==
    {IdentityErr, IdentityOf(ReadErr, Read(<<"g">>)),
     IdentityOf([err |-> FALSE, val |-> 12], Read(<<"g">>))}
SecurityReads ==
    {[severity |-> ReadErr, categories |-> CollectionErr],
     [severity |-> Read(EmptyStr),
      categories |-> Collection(<<Category(Read(SecurityUpdates))>>)]}
Updates ==
    {Update(ReadErr, CollectionErr, IdentityErr, ReadErr, CollectionErr)} \cup
    {Update(Read(EmptyStr), Collection(<<>>),
            IdentityOf([err |-> FALSE, val |-> 12], Read(<<"g">>)),
            ReadErr, CollectionCountErr)} \cup
    {Update(Read(<<"T">>), kb, id, sec.severity, sec.categories) :
        kb \in KBReads, id \in IdentityReads, sec \in SecurityReads}

-----------------------------------------------------------------------------
(* WindowsUpdateManager.searchUpdates *)

\* the calls that make searchUpdates return an error, in program order
Calls == <<"CoInitializeEx", "CreateObject", "QueryInterface",
           "CreateUpdateSearcher", "Search", "Updates", "Count">>
FailPoints == {Calls[i] : i \in DOMAIN Calls}

\* what CoInitializeEx may return: nil, an OleError of code S_FALSE, an
\* OleError of another code, an error that is no OleError
CoInitResults == {"S_OK", "S_FALSE", "E_FAIL", "notOleError"}
CoInitFailsAlways(r) == r # "S_OK"
CoInitFails(r) == r # "S_OK" /\ (r = "notOleError" \/ r # "S_FALSE")

\* the criteria string of the test of an invalid search, which the Windows
\* Update Agent rejects at the Search call at the latest
CriteriaInvalid == <<"I", "n", "v", "a", "l", "i", "d", "C", "r", "i", "t", "e", "r", "i", "a", "=", "B", "O", "G", "U", "S">>
Rejected(crit) == crit = CriteriaInvalid
Reaches(p, q) == \E i, k \in DOMAIN Calls : Calls[i] = p /\ Calls[k] = q /\ i <= k

\* the answers, kept when the search is observed
Answered(a, coInit, failed) ==
    IF a.on THEN [a EXCEPT !.coInit = coInit, !.failed = failed] ELSE a
Enumerated(a, item) ==
    IF a.on THEN [a EXCEPT !.items = Append(@, item)] ELSE a

\* one of the calls before the loop fails: return nil, err
SearchFail ==
    /\ spc = "open"
    /\ \E r \in CoInitResults, p \in FailPoints :
          /\ CoInitFails(r) <=> p = "CoInitializeEx"
          /\ Rejected(criteria) => Reaches(p, "Search")
          /\ searchRet' = [pkgs |-> NilSlice, err |-> p]
          /\ wua' = Answered(wua, r, p)
    /\ spc' = "ret"
    /\ UNCHANGED <<criteria, count, idx, found>>

\* every call before the loop succeeds; packages := make(.., 0, count)
SearchCount ==
    /\ spc = "open"
    /\ ~Rejected(criteria)
    /\ \E r \in CoInitResults :
          /\ ~CoInitFails(r)
          /\ wua' = Answered(wua, r, "none")
    /\ \E c \in 0..MaxUpdates : count' = c
    /\ idx' = 0
    /\ found' = MakeSlice
    /\ spc' = "loop"
    /\ UNCHANGED <<criteria, searchRet>>

\* one iteration of the loop over the result items
SearchItem ==
    /\ spc = "loop"
    /\ idx < count
    /\ \/ \* the item cannot be read: continue
          /\ found' = found
          /\ wua' = Enumerated(wua, ReadErr)
       \/ \E update \in Updates :
             LET parsed == ParseUpdate(update, criteria)
             IN /\ found' = IF parsed.isNil THEN found
                            ELSE AppendSlice(found, parsed.pkg)
                /\ wua' = Enumerated(wua, Read(update))
    /\ idx' = idx + 1
    /\ UNCHANGED <<spc, criteria, count, searchRet>>

\* return packages, nil
SearchReturn ==
    /\ spc = "loop"
    /\ idx = count
    /\ searchRet' = [pkgs |-> found, err |-> "nil"]
    /\ spc' = "ret"
    /\ UNCHANGED <<criteria, count, idx, found, wua>>

-----------------------------------------------------------------------------
(* Manager.GetPackages *)

\* the local a search result is kept in: an empty list when the search failed
Kept(ret) == IF ret.err # "nil" THEN MakeSlice ELSE ret.pkgs

\* allPackages := make(..); append(allPackages, installed...); append(.., available...)
AssembleAllNoMake(inst, avail) ==
    [isNil |-> inst.elems \o avail.elems = <<>>, elems |-> inst.elems \o avail.elems]
AssembleAll(inst, avail) ==
    [isNil |-> FALSE, elems |-> inst.elems \o avail.elems]

\* m.windowsManager.GetInstalledUpdates()
GetInstalledUpdates ==
    /\ mpc = "start"
    /\ mpc' = "installed"
    /\ spc' = "open"
    /\ criteria' = CriteriaInstalled
    /\ UNCHANGED <<instRet, availRet, installed, available, allPackages, retErr>>
    /\ UNCHANGED <<count, idx, found, searchRet, wua>>

\* the installed search has returned; m.windowsManager.GetAvailableUpdates()
GetAvailableUpdates ==
    /\ mpc = "installed"
    /\ spc = "ret"
    /\ instRet' = searchRet
    /\ installed' = Kept(searchRet)
    /\ mpc' = "available"
    /\ spc' = "open"
    /\ criteria' = CriteriaAvailable
    /\ count' = 0 /\ idx' = 0 /\ found' = NilSlice /\ searchRet' = NoReturn
    /\ UNCHANGED <<availRet, available, allPackages, retErr, wua>>

\* the available search has returned; return allPackages, nil
ReturnPackages ==
    /\ mpc = "available"
    /\ spc = "ret"
    /\ availRet' = searchRet
    /\ available' = Kept(searchRet)
    /\ allPackages' = AssembleAll(installed, Kept(searchRet))
    /\ retErr' = "nil"
    /\ mpc' = "done"
    /\ spc' = "idle"
    /\ criteria' = EmptyStr
    /\ count' = 0 /\ idx' = 0 /\ found' = NilSlice /\ searchRet' = NoReturn
    /\ UNCHANGED <<instRet, installed, wua>>

InitManager ==
    /\ CombineIdle
    /\ mpc = "start" /\ instRet = NoReturn /\ availRet = NoReturn
    /\ installed = NilSlice /\ available = NilSlice
    /\ allPackages = NilSlice /\ retErr = "nil"
    /\ SearchIdle /\ AptInstIdle /\ AptUpgIdle /\ RestIdle

NextManager ==
    \/ (GetInstalledUpdates /\ UNCHANGED <<combineVars, aptInstVars, aptUpgVars, restVars>>)
    \/ (GetAvailableUpdates /\ UNCHANGED <<combineVars, aptInstVars, aptUpgVars, restVars>>)
    \/ (ReturnPackages /\ UNCHANGED <<combineVars, aptInstVars, aptUpgVars, restVars>>)
    \/ (SearchFail /\ UNCHANGED <<combineVars, managerVars, aptInstVars, aptUpgVars, restVars>>)
    \/ (SearchCount /\ UNCHANGED <<combineVars, managerVars, aptInstVars, aptUpgVars, restVars>>)
    \/ (SearchItem /\ UNCHANGED <<combineVars, managerVars, aptInstVars, aptUpgVars, restVars>>)
    \/ (SearchReturn /\ UNCHANGED <<combineVars, managerVars, aptInstVars, aptUpgVars, restVars>>)

SpecManager == InitManager /\ [][NextManager]_vars

-----------------------------------------------------------------------------
(* Properties of Manager.GetPackages *)
All == allPackages.elems

\* C5 as stated: every package of the returned list with NeedsUpdate = FALSE
\* has a non-empty CurrentVersion and every package with NeedsUpdate = TRUE
\* has a non-empty AvailableVersion, whatever the property reads returned.
C5_VersionSet ==
    mpc = "done" =>
        \A i \in DOMAIN All :
            /\ ~All[i].NeedsUpdate => All[i].CurrentVersion # EmptyStr
            /\ All[i].NeedsUpdate => All[i].AvailableVersion # EmptyStr

\* C7 as stated: no two entries of the returned list have the same name.
C7_NoDuplicateNames ==
    mpc = "done" =>
        \A i, j \in DOMAIN All : i # j => All[i].Name # All[j].Name

\* C8: GetPackages returns a non-nil list and a nil error whatever the two
\* searches return; a failed search contributes no entry, and the list is the
\* entries of the installed search followed by those of the available search.
Contribution(ret) == IF ret.err # "nil" THEN <<>> ELSE ret.pkgs.elems
C8_AlwaysReturns ==
    mpc = "done" =>
        /\ allPackages.isNil = FALSE
        /\ retErr = "nil"
        /\ All = Contribution(instRet) \o Contribution(availRet)
C8_Witness ==
    /\ mpc = "done"
    /\ instRet.err # "nil"
    /\ availRet.err = "nil" /\ Len(availRet.pkgs.elems) = 2
    /\ Len(All) = 2

-----------------------------------------------------------------------------
(* strings.TrimSpace, strings.SplitN, strings.Fields, strings.Join *)
IsSpace(c) == c \in {" ", "\t", "\n", "\r"}

RECURSIVE TrimLeftSpace(_)
TrimLeftSpace(s) ==
    IF s # <<>> /\ IsSpace(Head(s)) THEN TrimLeftSpace(Tail(s)) ELSE s
RECURSIVE TrimRightSpace(_)
TrimRightSpace(s) ==
    IF s # <<>> /\ IsSpace(s[Len(s)]) THEN TrimRightSpace(SubSeq(s, 1, Len(s) - 1)) ELSE s
TrimSpace(s) == TrimRightSpace(TrimLeftSpace(s))

\* the index of the first c in s, 0 when there is none
Index(s, c) ==
    IF \E i \in DOMAIN s : s[i] = c
        THEN CHOOSE i \in DOMAIN s : s[i] = c /\ \A j \in 1..(i - 1) : s[j] # c
        ELSE 0

\* strings.SplitN(s, sep, n) for a one-character sep and n > 0
RECURSIVE SplitNFields(_, _, _)
SplitNFields(s, sep, n) ==
    LET t == TrimLeftSpace(s)
        ends == {i \in DOMAIN t : IsSpace(t[i])}
        i == IF ends = {} THEN 0 ELSE CHOOSE k \in ends : \A j \in ends : k <= j
    IN IF n = 1 \/ i = 0 THEN <<t>>
       ELSE <<SubSeq(t, 1, i - 1)>> \o SplitNFields(SubSeq(t, i + 1, Len(t)), sep, n - 1)
RECURSIVE SplitN(_, _, _)
SplitN(s, sep, n) ==
    LET i == Index(s, sep)
    IN IF n = 1 \/ i = 0 THEN <<s>>
       ELSE <<SubSeq(s, 1, i - 1)>> \o SplitN(SubSeq(s, i + 1, Len(s)), sep, n - 1)

\* strings.Fields: the maximal runs of non-space characters
RECURSIVE Fields(_)
Fields(s) ==
    LET t == TrimLeftSpace(s)
        ends == {i \in DOMAIN t : IsSpace(t[i])}
        i == IF ends = {} THEN Len(t) + 1 ELSE CHOOSE k \in ends : \A j \in ends : k <= j
    IN IF t = <<>> THEN <<>>
       ELSE <<SubSeq(t, 1, i - 1)>> \o Fields(SubSeq(t, i, Len(t)))

RECURSIVE Join(_, _)
Join(parts, sep) ==
    IF parts = <<>> THEN <<>>
    ELSE IF Len(parts) = 1 THEN parts[1]
    ELSE parts[1] \o sep \o Join(Tail(parts), sep)

-----------------------------------------------------------------------------
(* APTManager.parseInstalledPackages: the body of the scanner loop *)

\* the package a package line yields (parts is the line split in at most 3)
InstalledPackageOf(parts) ==
    Package(parts[1], IF Len(parts) = 3 THEN parts[3] ELSE EmptyStr, parts[2],
            EmptyStr, FALSE, FALSE)

\* m[k] = v
MapSet(m, k, v) == [x \in DOMAIN m \cup {k} |-> IF x = k THEN v ELSE m[x]]

\* trimmedLine == "": continue
ScanBlank(l) ==
    /\ TrimSpace(l) = EmptyStr
    /\ instBranch' = "blank"
    /\ UNCHANGED <<aptInstalled, currentPkg>>

\* a line that starts with a space while a package is current
ScanContinuation(l) ==
    /\ TrimSpace(l) # EmptyStr
    /\ HasPrefix(l, <<" ">>) /\ ~currentPkg.isNil
    /\ LET pkg == [currentPkg.pkg EXCEPT
                      !.Description = @ \o <<"\n">> \o TrimSpace(l)]
       IN /\ currentPkg' = [isNil |-> FALSE, pkg |-> pkg]
          /\ aptInstalled' = MapSet(aptInstalled, pkg.Name, pkg)
    /\ instBranch' = "continuation"

\* fewer than 2 parts: the line is skipped and currentPkg = nil
ScanMalformedKeeps(l) ==
    /\ TrimSpace(l) # EmptyStr
    /\ ~(HasPrefix(l, <<" ">>) /\ ~currentPkg.isNil)
    /\ Len(SplitN(TrimSpace(l), " ", 3)) < 2
    /\ instBranch' = "malformed"
    /\ UNCHANGED <<aptInstalled, currentPkg>>
ScanMalformed(l) ==
    /\ TrimSpace(l) # EmptyStr
    /\ ~(HasPrefix(l, <<" ">>) /\ ~currentPkg.isNil)
    /\ Len(SplitN(TrimSpace(l), " ", 3)) < 2
    /\ currentPkg' = NoPackage
    /\ instBranch' = "malformed"
    /\ UNCHANGED aptInstalled

\* a new package line
ScanPackage(l) ==
    /\ TrimSpace(l) # EmptyStr
    /\ ~(HasPrefix(l, <<" ">>) /\ ~currentPkg.isNil)
    /\ LET parts == SplitN(TrimSpace(l), " ", 3)
       IN /\ Len(parts) >= 2
          /\ aptInstalled' = MapSet(aptInstalled, parts[1], InstalledPackageOf(parts))
          /\ currentPkg' = [isNil |-> FALSE, pkg |-> InstalledPackageOf(parts)]
    /\ instBranch' = "package"

\* the lines dpkg-query may print: a name, a version and description words,
\* separated by one space, two spaces or a tab, after no indentation, a space
\* or a tab; the empty line and the blank line
WordAt(k) == IF k = 1 THEN {<<"a">>, <<"b">>} ELSE IF k = 2 THEN {<<"1">>} ELSE {<<"d">>}
Separators == {<<" ">>, <<" ", " ">>, <<"\t">>}
\* what separates word k from the next: tabs only around the version
SeparatorsAt(k) == IF k <= 2 THEN Separators ELSE Separators \ {<<"\t">>}
Indents == {<<>>, <<" ">>, <<"\t">>}
RECURSIVE WordLines(_, _)
WordLines(k, n) ==
    IF k = n THEN WordAt(k)
    ELSE {w \o sep \o rest : w \in WordAt(k), sep \in SeparatorsAt(k),
                            rest \in WordLines(k + 1, n)}
InstLines ==
    {<<>>, <<" ">>} \cup
    {ind \o body : ind \in Indents, body \in UNION {WordLines(1, n) : n \in 1..MaxWords}}

\* scanner.Scan() returned the line l
Scanned(l) ==
    /\ instScanned' = instScanned + 1
    /\ instLine' = l

InitAptInstalled ==
    /\ CombineIdle /\ ManagerIdle /\ SearchIdle /\ AptUpgIdle /\ RestIdle
    /\ aptInstalled = <<>> /\ currentPkg = NoPackage /\ instScanned = 0
    /\ instLine = EmptyStr /\ instBranch = "start"

NextAptInstalled ==
    \/ /\ instScanned < MaxLines
       /\ \E l \in InstLines : Scanned(l) /\ ScanBlank(l)
       /\ UNCHANGED <<combineVars, managerVars, searchVars, aptUpgVars, restVars>>
    \/ /\ instScanned < MaxLines
       /\ \E l \in InstLines : Scanned(l) /\ ScanContinuation(l)
       /\ UNCHANGED <<combineVars, managerVars, searchVars, aptUpgVars, restVars>>
    \/ /\ instScanned < MaxLines
       /\ \E l \in InstLines : Scanned(l) /\ ScanMalformed(l)
       /\ UNCHANGED <<combineVars, managerVars, searchVars, aptUpgVars, restVars>>
    \/ /\ instScanned < MaxLines
       /\ \E l \in InstLines : Scanned(l) /\ ScanPackage(l)
       /\ UNCHANGED <<combineVars, managerVars, searchVars, aptUpgVars, restVars>>

SpecAptInstalled == InitAptInstalled /\ [][NextAptInstalled]_vars

-----------------------------------------------------------------------------
(* strings.Trim, strings.CutPrefix, strings.TrimSuffix, strings.ToLower *)

RECURSIVE TrimLeftSet(_, _)
TrimLeftSet(s, cutset) ==
    IF s # <<>> /\ Head(s) \in cutset THEN TrimLeftSet(Tail(s), cutset) ELSE s
RECURSIVE TrimRightSet(_, _)
TrimRightSet(s, cutset) ==
    IF s # <<>> /\ s[Len(s)] \in cutset
        THEN TrimRightSet(SubSeq(s, 1, Len(s) - 1), cutset) ELSE s
\* strings.Trim(s, cutset), the cutset being a set of characters
Trim(s, cutset) == TrimRightSet(TrimLeftSet(s, cutset), cutset)

\* strings.CutPrefix(s, prefix): s without the prefix, and whether it was there
CutPrefix(s, prefix) ==
    IF HasPrefix(s, prefix)
        THEN [after |-> SubSeq(s, Len(prefix) + 1, Len(s)), found |-> TRUE]
        ELSE [after |-> s, found |-> FALSE]

TrimSuffix(s, suffix) ==
    IF HasSuffix(s, suffix) THEN SubSeq(s, 1, Len(s) - Len(suffix)) ELSE s

UpperCase == <<"A", "B", "C", "D", "E", "F", "G", "H", "I", "J", "K", "L", "M",
               "N", "O", "P", "Q", "R", "S", "T", "U", "V", "W", "X", "Y", "Z">>
LowerCase == <<"a", "b", "c", "d", "e", "f", "g", "h", "i", "j", "k", "l", "m",
               "n", "o", "p", "q", "r", "s", "t", "u", "v", "w", "x", "y", "z">>
ToLower(s) ==
    [i \in DOMAIN s |->
        IF \E k \in DOMAIN UpperCase : UpperCase[k] = s[i]
            THEN LowerCase[CHOOSE k \in DOMAIN UpperCase : UpperCase[k] = s[i]]
            ELSE s[i]]

-----------------------------------------------------------------------------
(* APTManager.parseAPTUpgrade: the body of the scanner loop *)

InstPrefix == <<"I", "n", "s", "t", " ">>
Security == <<"s", "e", "c", "u", "r", "i", "t", "y">>

\* the parts of a multi-word version after its first: the fields from j on,
\* up to and including the first that ends with "]"
RECURSIVE VersionParts(_, _)
VersionParts(fields, j) ==
    IF j > Len(fields) THEN <<>>
    ELSE IF HasSuffix(fields[j], <<"]">>) THEN <<TrimSuffix(fields[j], <<"]">>)>>
    ELSE <<fields[j]>> \o VersionParts(fields, j + 1)

\* the loop that extracts the current version, from field i on
RECURSIVE CurrentVersionLoop(_, _)
CurrentVersionLoop(fields, i) ==
    IF i > Len(fields) THEN EmptyStr
    ELSE IF HasPrefix(fields[i], <<"[">>) /\ HasSuffix(fields[i], <<"]">>)
        THEN Trim(fields[i], {"[", "]"})
    ELSE IF CutPrefix(fields[i], <<"[">>).found
        THEN Join(<<CutPrefix(fields[i], <<"[">>).after>> \o VersionParts(fields, i + 1),
                  <<" ">>)
    ELSE CurrentVersionLoop(fields, i + 1)

\* the loop that extracts the available version, from field i on
RECURSIVE AvailableVersionLoop(_, _)
AvailableVersionLoop(fields, i) ==
    IF i > Len(fields) THEN EmptyStr
    ELSE IF CutPrefix(fields[i], <<"(">>).found THEN CutPrefix(fields[i], <<"(">>).after
    ELSE AvailableVersionLoop(fields, i + 1)

\* the package an "Inst" line of at least 4 fields describes
UpgradeOf(line) ==
    LET fields == Fields(line)
    IN Package(fields[2], EmptyStr, CurrentVersionLoop(fields, 1),
               AvailableVersionLoop(fields, 1), TRUE,
               Contains(ToLower(line), Security))

Complete(pkg) ==
    pkg.Name # EmptyStr /\ pkg.CurrentVersion # EmptyStr /\ pkg.AvailableVersion # EmptyStr

\* the line does not start with "Inst ": continue
UpgNotInst(l) ==
    /\ ~HasPrefix(TrimSpace(l), InstPrefix)
    /\ upgBranch' = "notInst"
    /\ UNCHANGED aptUpgradable

\* fewer than 4 fields: continue
UpgInsufficient(l) ==
    /\ HasPrefix(TrimSpace(l), InstPrefix)
    /\ Len(Fields(TrimSpace(l))) < 4
    /\ upgBranch' = "insufficient"
    /\ UNCHANGED aptUpgradable

\* the name, the current version or the available version is empty
UpgDropped(l) ==
    /\ HasPrefix(TrimSpace(l), InstPrefix)
    /\ Len(Fields(TrimSpace(l))) >= 4
    /\ ~Complete(UpgradeOf(TrimSpace(l)))
    /\ upgBranch' = "dropped"
    /\ UNCHANGED aptUpgradable

\* packages = append(packages, ...)
UpgEmitted(l) ==
    /\ HasPrefix(TrimSpace(l), InstPrefix)
    /\ Len(Fields(TrimSpace(l))) >= 4
    /\ Complete(UpgradeOf(TrimSpace(l)))
    /\ upgBranch' = "emitted"
    /\ aptUpgradable' = AppendSlice(aptUpgradable, UpgradeOf(TrimSpace(l)))

\* the lines apt-get -s may print: a verb, a package name, then a current
\* version in brackets (of one word or of two), an available version after
\* "(", a source and an architecture in brackets before ")"
FieldAt(k) ==
    IF k = 1 THEN {<<"I", "n", "s", "t">>, <<"C", "o", "n", "f">>}
    ELSE IF k = 2 THEN {<<"a">>}
    ELSE IF k = 3 THEN {<<"[", "1", "]">>, <<"[", "1">>, <<"(", "3">>, <<"[", "]">>}
    ELSE IF k = 4 THEN {<<"2", "]">>, <<"(", "3">>, <<"[", "c", "]", ")">>, <<"u">>}
    ELSE IF k = 5 THEN {<<"(", "3">>, <<"[", "c", "]", ")">>,
                        <<"S", "e", "c", "u", "r", "i", "t", "y">>}
    ELSE {<<"[", "c", "]", ")">>, <<"u">>}
RECURSIVE FieldLines(_, _)
FieldLines(k, n) ==
    IF k = n THEN FieldAt(k)
    ELSE {f \o <<" ">> \o rest : f \in FieldAt(k), rest \in FieldLines(k + 1, n)}
UpgLines ==
    {<<>>} \cup
    {ind \o body : ind \in {<<>>, <<" ">>},
                   body \in UNION {FieldLines(1, n) : n \in 1..MaxFields}}

\* scanner.Scan() returned the line l
UpgScanned(l) ==
    /\ upgScanned' = upgScanned + 1
    /\ upgLine' = l

InitAptUpgrade ==
    /\ CombineIdle /\ ManagerIdle /\ SearchIdle /\ AptInstIdle /\ RestIdle
    /\ aptUpgradable = NilSlice /\ upgScanned = 0
    /\ upgLine = EmptyStr /\ upgBranch = "start"

NextAptUpgrade ==
    \/ /\ upgScanned < MaxUpgLines
       /\ \E l \in UpgLines : UpgScanned(l) /\ UpgNotInst(l)
       /\ UNCHANGED <<combineVars, managerVars, searchVars, aptInstVars, restVars>>
    \/ /\ upgScanned < MaxUpgLines
       /\ \E l \in UpgLines : UpgScanned(l) /\ UpgInsufficient(l)
       /\ UNCHANGED <<combineVars, managerVars, searchVars, aptInstVars, restVars>>
    \/ /\ upgScanned < MaxUpgLines
       /\ \E l \in UpgLines : UpgScanned(l) /\ UpgDropped(l)
       /\ UNCHANGED <<combineVars, managerVars, searchVars, aptInstVars, restVars>>
    \/ /\ upgScanned < MaxUpgLines
       /\ \E l \in UpgLines : UpgScanned(l) /\ UpgEmitted(l)
       /\ UNCHANGED <<combineVars, managerVars, searchVars, aptInstVars, restVars>>

SpecAptUpgrade == InitAptUpgrade /\ [][NextAptUpgrade]_vars

-----------------------------------------------------------------------------
(* Properties of APTManager.parseInstalledPackages *)

\* the line just scanned was taken neither as blank nor as a continuation
NonContinuation == instBranch \in {"package", "malformed"}

\* what follows the first whitespace-delimited token of s
AfterToken(s) ==
    LET t == TrimLeftSpace(s)
        ends == {i \in DOMAIN t : IsSpace(t[i])}
        i == IF ends = {} THEN Len(t) + 1 ELSE CHOOSE k \in ends : \A j \in ends : k <= j
    IN TrimSpace(SubSeq(t, i, Len(t)))

\* C9 as stated: every non-continuation line that has at least two
\* whitespace-delimited tokens is mapped to an installed entry keyed by the
\* first token, with currentVersion the second token and description the
\* remainder of the line; before any line is read the map is empty.
C9_WhitespaceTokens ==
    /\ instScanned = 0 => aptInstalled = <<>>
    /\ (NonContinuation /\ Len(Fields(instLine)) >= 2) =>
          LET tokens == Fields(instLine)
          IN /\ tokens[1] \in DOMAIN aptInstalled
             /\ aptInstalled[tokens[1]] =
                   Package(tokens[1], AfterToken(AfterToken(instLine)), tokens[2],
                           EmptyStr, FALSE, FALSE)

\* the entry a line yields when it is cut at single spaces: the name is the
\* text before the first space of the trimmed line, the version the text
\* between the first and the second space, the description what follows the
\* second space
CutAtSpaces(l) ==
    LET t == TrimSpace(l)
        i == Index(t, " ")
        rest == SubSeq(t, i + 1, Len(t))
        j == Index(rest, " ")
    IN Package(SubSeq(t, 1, i - 1),
               IF j = 0 THEN EmptyStr ELSE SubSeq(rest, j + 1, Len(rest)),
               IF j = 0 THEN rest ELSE SubSeq(rest, 1, j - 1),
               EmptyStr, FALSE, FALSE)

\* one step of the scanner over a line that is no blank line and no
\* continuation
C9_Step ==
    (instBranch' \in {"package", "malformed"} /\ instScanned' = instScanned + 1) =>
        IF Index(TrimSpace(instLine'), " ") = 0
            THEN aptInstalled' = aptInstalled
            ELSE aptInstalled' =
                    MapSet(aptInstalled, CutAtSpaces(instLine').Name, CutAtSpaces(instLine'))

\* C9 amended: a line that is neither blank nor a continuation and whose
\* trimmed text holds a space sets the entry keyed by the text before the
\* first space, with currentVersion the text between the first and the second
\* space (empty when they are adjacent) and description the text after the
\* second space (empty when there is none), and changes no other entry; a
\* line whose trimmed text holds no space changes nothing; before any line is
\* read the map is empty.
C9_SingleSpaceSplit ==
    /\ instScanned = 0 => aptInstalled = <<>>
    /\ [][C9_Step]_vars

\* a package line of three single-spaced fields has been read, and a line
\* whose name and version are two spaces apart
C9_Witness ==
    /\ instScanned = 2
    /\ instBranch = "package"
    /\ instLine = <<"b", " ", " ", "1">>
    /\ DOMAIN aptInstalled = {<<"a">>, <<"b">>}
    /\ aptInstalled[<<"a">>].Description = <<"d">>
    /\ aptInstalled[<<"b">>].CurrentVersion = EmptyStr

\* the current package with the trimmed line l appended to its description
\* after a newline
WithContinuation(l) ==
    [currentPkg.pkg EXCEPT !.Description = @ \o <<"\n">> \o TrimSpace(l)]

\* one step of the scanner, as C21 states it: a line that begins with
\* whitespace while a package is current is appended; any other line of fewer
\* than two tokens changes no entry and clears the current package
C21_WhitespaceStep ==
    (instScanned' = instScanned + 1 /\ TrimSpace(instLine') # EmptyStr) =>
        IF IsSpace(instLine'[1]) /\ ~currentPkg.isNil
            THEN /\ currentPkg' = [isNil |-> FALSE, pkg |-> WithContinuation(instLine')]
                 /\ aptInstalled' =
                       MapSet(aptInstalled, currentPkg.pkg.Name, WithContinuation(instLine'))
            ELSE Len(Fields(instLine')) < 2 =>
                    aptInstalled' = aptInstalled /\ currentPkg' = NoPackage
C21_Step ==
    (instScanned' = instScanned + 1 /\ TrimSpace(instLine') # EmptyStr) =>
        IF HasPrefix(instLine', <<" ">>) /\ ~currentPkg.isNil
            THEN /\ currentPkg' = [isNil |-> FALSE, pkg |-> WithContinuation(instLine')]
                 /\ aptInstalled' =
                       MapSet(aptInstalled, currentPkg.pkg.Name, WithContinuation(instLine'))
            ELSE /\ Index(TrimSpace(instLine'), " ") = 0 =>
                       aptInstalled' = aptInstalled /\ currentPkg' = NoPackage
                 /\ Index(TrimSpace(instLine'), " ") # 0 =>
                       /\ aptInstalled' = MapSet(aptInstalled, CutAtSpaces(instLine').Name,
                                                 CutAtSpaces(instLine'))
                       /\ currentPkg' = [isNil |-> FALSE, pkg |-> CutAtSpaces(instLine')]
-----------------------------------------------------------------------------
(* Properties of APTManager.parseAPTUpgrade *)

\* the text between the first "[" of s and the first "]" after it; none
\* when s has no such span
FirstBracketSpan(s) ==
    LET i == Index(s, "[")
        rest == SubSeq(s, i + 1, Len(s))
        j == Index(rest, "]")
    IN IF i = 0 \/ j = 0 THEN [found |-> FALSE, content |-> EmptyStr]
       ELSE [found |-> TRUE, content |-> SubSeq(rest, 1, j - 1)]

\* the token that follows the first "(" of s: the text up to the next
\* whitespace
AfterFirstParen(s) ==
    LET i == Index(s, "(")
        rest == Fields(SubSeq(s, i + 1, Len(s)))
    IN IF i = 0 \/ rest = <<>> THEN EmptyStr ELSE rest[1]

\* C10 as stated: a candidate is emitted for a line only if the line begins
\* with "Inst " and its name, current version and available version are all
\* non-empty; the emitted candidate has needsUpdate = true, name equal to the
\* second token, currentVersion equal to the content of the first bracketed
\* [ ... ] span and availableVersion equal to the token after the first "(".
C10_EmittedCandidate ==
    upgBranch = "emitted" =>
        LET line == TrimSpace(upgLine)
            pkg == aptUpgradable.elems[Len(aptUpgradable.elems)]
        IN /\ HasPrefix(line, InstPrefix)
           /\ pkg.Name # EmptyStr
           /\ pkg.CurrentVersion # EmptyStr
           /\ pkg.AvailableVersion # EmptyStr
           /\ pkg.NeedsUpdate
           /\ pkg.Name = Fields(line)[2]
           /\ FirstBracketSpan(line).found
           /\ pkg.CurrentVersion = FirstBracketSpan(line).content
           /\ pkg.AvailableVersion = AfterFirstParen(line)

-----------------------------------------------------------------------------
(* DNFManager.parseInstalledPackages *)

\* the distinct lines of an output, the calls made on it
MaxDnfLines == 2
MaxParses == 3

LoadedPlugins == <<"L", "o", "a", "d", "e", "d", " ", "p", "l", "u", "g", "i", "n", "s">>
InstalledPackagesHeader == <<"I", "n", "s", "t", "a", "l", "l", "e", "d", " ", "P", "a", "c", "k", "a", "g", "e", "s">>

\* make(map[string]string): a new, empty map, whatever map an earlier call
\* built
MakeMapReused(prior) == prior
MakeMap(prior) == <<>>

\* header lines and empty lines
DnfSkipped(line) ==
    \/ line = EmptyStr
    \/ Contains(line, LoadedPlugins)
    \/ Contains(line, InstalledPackagesHeader)

\* the scanner loop from line i on, m being installedPackages
RECURSIVE DnfScan(_, _, _)
DnfScan(lines, i, m) ==
    IF i > Len(lines) THEN m
    ELSE LET line == TrimSpace(lines[i])
             fields == Fields(line)
         IN IF DnfSkipped(line) \/ Len(fields) < 2
                THEN DnfScan(lines, i + 1, m)
                ELSE DnfScan(lines, i + 1, MapSet(m, fields[1], fields[2]))

DnfParseInstalledPackages(output, prior) == DnfScan(output, 1, MakeMap(prior))

\* the lines dnf list installed may print
DnfLines ==
    {EmptyStr, InstalledPackagesHeader,
     <<"a", " ", "1">>, <<" ", "a", " ", " ", "2", " ", "r">>, <<"b", "\t", "1">>, <<"b">>}
RECURSIVE DnfOutputsOf(_)
DnfOutputsOf(n) ==
    IF n = 0 THEN {<<>>}
    ELSE DnfOutputsOf(n - 1) \cup
         {Append(o, l) : o \in {x \in DnfOutputsOf(n - 1) : Len(x) = n - 1}, l \in DnfLines}
DnfOutputs == DnfOutputsOf(MaxDnfLines)

\* one call of parseInstalledPackages on the output, on the manager of the
\* call before (kind "same") or on a NewDNFManager (kind "fresh")
DnfParsed(kind, prior) ==
    LET result == DnfParseInstalledPackages(dnfOutput, prior)
    IN /\ Len(dnfLog) < MaxParses
       /\ dnfLog' = Append(dnfLog, kind)
       /\ dnfResult' = result
       /\ dnfFirst' = IF dnfCalls = 0 THEN result ELSE dnfFirst
       /\ dnfPrior' = result
       /\ dnfCalls' = dnfCalls + 1
       /\ UNCHANGED dnfOutput

DnfParse == DnfParsed("same", dnfPrior)

\* NewDNFManager: the struct holds the logger and nothing of earlier calls
DnfParseFresh == DnfParsed("fresh", <<>>)

\* a call on a different output, on the same manager, between two parses
DnfParseOther(l) ==
    /\ Len(dnfLog) < MaxParses
    /\ dnfLog' = Append(dnfLog, "other")
    /\ dnfPrior' = DnfParseInstalledPackages(<<l>>, dnfPrior)
    /\ UNCHANGED <<dnfOutput, dnfFirst, dnfResult, dnfCalls>>

coreVars == <<combineVars, managerVars, searchVars, aptInstVars, aptUpgVars, lateVars>>
CoreIdle == CombineIdle /\ ManagerIdle /\ SearchIdle /\ AptInstIdle /\ AptUpgIdle /\ LateIdle

InitDnf ==
    /\ CoreIdle /\ RebootIdle /\ SourceIdle /\ SecurityIdle
    /\ dnfOutput \in DnfOutputs
    /\ dnfFirst = <<>> /\ dnfResult = <<>> /\ dnfPrior = <<>>
    /\ dnfCalls = 0 /\ dnfLog = <<>>

NextDnf ==
    \/ DnfParse /\ UNCHANGED <<coreVars, rebootVars, sourceVars, securityVars>>
    \/ DnfParseFresh /\ UNCHANGED <<coreVars, rebootVars, sourceVars, securityVars>>
    \/ (\E l \in DnfLines : DnfParseOther(l)) /\ UNCHANGED <<coreVars, rebootVars, sourceVars, securityVars>>

SpecDnf == InitDnf /\ [][NextDnf]_vars

-----------------------------------------------------------------------------
(* Properties of DNFManager.parseInstalledPackages *)

\* the names the lines of the output start with
DnfNames(output) ==
    {Fields(output[i])[1] : i \in {k \in DOMAIN output : Fields(output[k]) # <<>>}}

\* C11: every parse of the same output, on the same manager or on a fresh
\* one, whatever was parsed in between, returns the map the first parse
\* returned, and that map holds no name that is not in the output.
C11_Idempotent ==
    dnfCalls > 0 =>
        /\ dnfResult = dnfFirst
        /\ DOMAIN dnfResult \subseteq DnfNames(dnfOutput)

\* the output was parsed, then another output on the same manager, then the
\* output again on that manager, and the entries of the other output are not
\* in the result
C11_Witness ==
    /\ dnfLog = <<"same", "other", "same">>
    /\ dnfOutput = <<<<"a", " ", "1">>>>
    /\ DOMAIN dnfResult = {<<"a">>}
    /\ DOMAIN dnfPrior = {<<"a">>}

-----------------------------------------------------------------------------
(* WindowsUpdateManager.GetInstalledUpdates, GetAvailableUpdates and a      *)
(* search with the criteria of the test, each called on its own and          *)
(* observed                                                                  *)

InitSearch ==
    /\ CombineIdle /\ ManagerIdle /\ AptInstIdle /\ AptUpgIdle /\ RestIdle
    /\ spc = "open"
    /\ criteria \in {CriteriaInstalled, CriteriaAvailable, CriteriaInvalid}
    /\ count = 0 /\ idx = 0 /\ found = NilSlice /\ searchRet = NoReturn
    /\ wua = Observing

NextSearch ==
    \/ SearchFail /\ UNCHANGED <<combineVars, managerVars, aptInstVars, aptUpgVars, restVars>>
    \/ SearchCount /\ UNCHANGED <<combineVars, managerVars, aptInstVars, aptUpgVars, restVars>>
    \/ SearchItem /\ UNCHANGED <<combineVars, managerVars, aptInstVars, aptUpgVars, restVars>>
    \/ SearchReturn /\ UNCHANGED <<combineVars, managerVars, aptInstVars, aptUpgVars, restVars>>

SpecSearch == InitSearch /\ [][NextSearch]_vars

-----------------------------------------------------------------------------
(* Properties of the Windows Update searches *)

\* the search has returned a list
Listed == spc = "ret" /\ searchRet.err = "nil"
Listing == searchRet.pkgs.elems

\* C12 as stated: every package GetInstalledUpdates returns has
\* NeedsUpdate = false, a non-empty CurrentVersion and a non-empty Name.
C12_InstalledUpdates ==
    (Listed /\ criteria = CriteriaInstalled) =>
        \A i \in DOMAIN Listing :
            /\ ~Listing[i].NeedsUpdate
            /\ Listing[i].CurrentVersion # EmptyStr
            /\ Listing[i].Name # EmptyStr

\* C13 as stated: every package GetAvailableUpdates returns has
\* NeedsUpdate = true, a non-empty AvailableVersion and a non-empty Name.
C13_AvailableUpdates ==
    (Listed /\ criteria = CriteriaAvailable) =>
        \A i \in DOMAIN Listing :
            /\ Listing[i].NeedsUpdate
            /\ Listing[i].AvailableVersion # EmptyStr
            /\ Listing[i].Name # EmptyStr

\* a read of a collection, of its Count or of one of its items failed
CollectionFails(c) == c.err \/ c.countErr \/ \E i \in DOMAIN c.items : c.items[i].err

\* reading the item or one of its properties failed
ReadFails(item) ==
    \/ item.err
    \/ item.val.Title.err
    \/ CollectionFails(item.val.KBArticleIDs)
    \/ item.val.Identity.err
    \/ item.val.Identity.RevisionNumber.err
    \/ item.val.Identity.UpdateID.err
    \/ item.val.MsrcSeverity.err
    \/ CollectionFails(item.val.Categories)
    \/ \E i \in DOMAIN item.val.Categories.items :
          item.val.Categories.items[i].Name.err

\* the packages of the items all of whose reads succeeded, in item order
RECURSIVE PackagesOfReadable(_, _)
PackagesOfReadable(items, crit) ==
    IF items = <<>> THEN <<>>
    ELSE IF ReadFails(Head(items)) THEN PackagesOfReadable(Tail(items), crit)
    ELSE <<ParseUpdate(Head(items).val, crit).pkg>> \o PackagesOfReadable(Tail(items), crit)

\* C14 as stated: when the calls before the loop succeed, searchUpdates
\* returns a nil error and its list holds no item one of whose property reads
\* failed and a package for every other item, in item-index order.
C14_FailedItemSkipped ==
    (spc = "ret" /\ wua.failed = "none") =>
        /\ searchRet.err = "nil"
        /\ Listing = PackagesOfReadable(wua.items, criteria)

\* the listing mechanism itself failed
MechanismFails ==
    \/ wua.coInit \in {"E_FAIL", "notOleError"}
    \/ wua.failed \in {"CreateObject", "QueryInterface", "CreateUpdateSearcher",
                       "Search", "Updates", "Count"}

\* C15: searchUpdates returns a non-nil error and no list when COM
\* initialization fails with a result other than S_FALSE, when the session or
\* the searcher cannot be created, when the Search call is rejected (as it is
\* for the invalid criteria) or when the Updates collection or its Count
\* cannot be read; in every other case it returns a nil error.
C15_MechanismFailure ==
    spc = "ret" =>
        /\ MechanismFails => (searchRet.err # "nil" /\ searchRet.pkgs = NilSlice)
        /\ ~MechanismFails => searchRet.err = "nil"
        /\ criteria = CriteriaInvalid => searchRet.err # "nil"

\* COM was already initialized on the thread (S_FALSE), no call failed, and
\* the search returned after two items
C15_Witness ==
    /\ spc = "ret"
    /\ wua.coInit = "S_FALSE" /\ wua.failed = "none"
    /\ Len(wua.items) = 2
    /\ searchRet.err = "nil"

-----------------------------------------------------------------------------
(* Detector.CheckRebootRequired, as the registry build defines it and as    *)
(* reboot.go defines it                                                      *)

WindowsUpdateReason == <<"W", "i", "n", "d", "o", "w", "s", " ", "U", "p", "d", "a", "t", "e", " ", "p", "e", "n", "d", "i", "n", "g", " ", "r", "e", "b", "o", "o", "t">>
ComponentServicingReason == <<"C", "o", "m", "p", "o", "n", "e", "n", "t", " ", "s", "e", "r", "v", "i", "c", "i", "n", "g", " ", "p", "e", "n", "d", "i", "n", "g", " ", "r", "e", "b", "o", "o", "t">>
FileRenameReason == <<"P", "e", "n", "d", "i", "n", "g", " ", "f", "i", "l", "e", " ", "r", "e", "n", "a", "m", "e", " ", "o", "p", "e", "r", "a", "t", "i", "o", "n", "s">>
FlagFileReason == <<"R", "e", "b", "o", "o", "t", " ", "f", "l", "a", "g", " ", "f", "i", "l", "e", " ", "e", "x", "i", "s", "t", "s">>
NeedsRestartingReason == <<"n", "e", "e", "d", "s", "-", "r", "e", "s", "t", "a", "r", "t", "i", "n", "g", " ", "i", "n", "d", "i", "c", "a", "t", "e", "s", " ", "r", "e", "b", "o", "o", "t", " ", "n", "e", "e", "d", "e", "d">>
KernelMismatchReason == <<"K", "e", "r", "n", "e", "l", " ", "v", "e", "r", "s", "i", "o", "n", " ", "m", "i", "s", "m", "a", "t", "c", "h">>
NoRebootReason == <<"N", "o", " ", "r", "e", "b", "o", "o", "t", " ", "r", "e", "q", "u", "i", "r", "e", "d">>

\* registryKeyExists: the key can be opened
RegistryKeyExists(key) == key = "exists"

\* registryValueExists: the key can be opened and the value read as a string
\* or as a list of strings
RegistryValueExists(value) == value \in {"REG_SZ", "REG_MULTI_SZ"}

\* the reasons slice after the three checks
Reasons(env) ==
    (IF RegistryKeyExists(env.rebootRequired) THEN <<WindowsUpdateReason>> ELSE <<>>) \o
    (IF RegistryKeyExists(env.rebootPending) THEN <<ComponentServicingReason>> ELSE <<>>) \o
    (IF RegistryValueExists(env.pendingFileRename) THEN <<FileRenameReason>> ELSE <<>>)

BuildRebootReasonComma(reasons) == Join(reasons, <<",", " ">>)
BuildRebootReason(reasons) == Join(reasons, <<";", " ">>)

\* the states of the registry: each key is there or not; the value is of type
\* REG_SZ, REG_MULTI_SZ or another type, or is missing, or its key is
RegistryStates ==
    [os : {"windows"}, rebootRequired : {"exists", "missing"},
     rebootPending : {"exists", "missing"},
     pendingFileRename : {"REG_SZ", "REG_MULTI_SZ", "REG_DWORD", "missing", "noKey"}]

\* checkNeedsRestarting
CheckNeedsRestarting(env) ==
    IF env.needsRestarting = "notFound" THEN [needs |-> FALSE, reason |-> EmptyStr]
    ELSE IF env.needsRestarting = "exitError"
        THEN [needs |-> TRUE, reason |-> NeedsRestartingReason]
    ELSE [needs |-> FALSE, reason |-> EmptyStr]

\* the states of a system reboot.go looks at: the flag file, the outcome of
\* needs-restarting -r, the running kernel and the latest installed kernel
SystemStates ==
    [os : {"linux"}, flagFile : BOOLEAN,
     needsRestarting : {"notFound", "exit0", "exitError", "runError"},
     runningKernel : {EmptyStr, <<"5">>}, latestKernel : {EmptyStr, <<"5">>, <<"6">>}]

\* part_007: the registry checks
CheckRebootRequired ==
    /\ rpc = "call" /\ rebootEnv.os = "windows"
    /\ LET reasons == Reasons(rebootEnv)
       IN IF Len(reasons) > 0
              THEN needsReboot' = TRUE /\ rebootReason' = BuildRebootReason(reasons)
              ELSE needsReboot' = FALSE /\ rebootReason' = EmptyStr
    /\ rpc' = "ret"
    /\ UNCHANGED rebootEnv

\* reboot.go: the flag file, needs-restarting, the kernel versions
CheckRebootRequiredSystem ==
    /\ rpc = "call" /\ rebootEnv.os = "linux"
    /\ IF rebootEnv.flagFile
           THEN needsReboot' = TRUE /\ rebootReason' = FlagFileReason
       ELSE IF CheckNeedsRestarting(rebootEnv).needs
           THEN needsReboot' = TRUE
                /\ rebootReason' = CheckNeedsRestarting(rebootEnv).reason
       ELSE IF rebootEnv.runningKernel # rebootEnv.latestKernel
                /\ rebootEnv.latestKernel # EmptyStr
           THEN needsReboot' = TRUE /\ rebootReason' = KernelMismatchReason
       ELSE needsReboot' = FALSE /\ rebootReason' = NoRebootReason
    /\ rpc' = "ret"
    /\ UNCHANGED rebootEnv

InitReboot ==
    /\ CoreIdle /\ DnfIdle /\ SourceIdle /\ SecurityIdle
    /\ rebootEnv \in RegistryStates \cup SystemStates
    /\ rpc = "call" /\ needsReboot = FALSE /\ rebootReason = EmptyStr

NextReboot ==
    \/ CheckRebootRequired /\ UNCHANGED <<coreVars, dnfVars, sourceVars, securityVars>>
    \/ CheckRebootRequiredSystem /\ UNCHANGED <<coreVars, dnfVars, sourceVars, securityVars>>

SpecReboot == InitReboot /\ [][NextReboot]_vars

-----------------------------------------------------------------------------
(* Properties of Detector.CheckRebootRequired *)

\* the reasons of the indicators that are present, in the fixed order
Indicators(env) ==
    (IF env.rebootRequired = "exists" THEN <<WindowsUpdateReason>> ELSE <<>>) \o
    (IF env.rebootPending = "exists" THEN <<ComponentServicingReason>> ELSE <<>>) \o
    (IF env.pendingFileRename \in {"REG_SZ", "REG_MULTI_SZ"}
        THEN <<FileRenameReason>> ELSE <<>>)

\* the reasons, one after the other, with "; " between two of them
RECURSIVE Listed3(_)
Listed3(reasons) ==
    IF reasons = <<>> THEN EmptyStr
    ELSE IF Len(reasons) = 1 THEN reasons[1]
    ELSE reasons[1] \o <<";", " ">> \o Listed3(Tail(reasons))

\* C16 as stated: needsReboot = true comes with a non-empty reason and
\* needsReboot = false with an empty reason; the reason lists every registry
\* indicator that is present, in the order Windows Update, component
\* servicing, pending file renames, separated by "; ".
C16_RebootReason ==
    rpc = "ret" =>
        /\ needsReboot <=> rebootReason # EmptyStr
        /\ rebootEnv.os = "windows" => rebootReason = Listed3(Indicators(rebootEnv))

-----------------------------------------------------------------------------
(* WindowsUpdateSourceManager.GetSources and Manager.GetRepositories *)

RepoTypeWindowsUpdate == <<"w", "i", "n", "d", "o", "w", "s", "-", "u", "p", "d", "a", "t", "e">>
WSUS == <<"W", "S", "U", "S">>
MicrosoftUpdate == <<"M", "i", "c", "r", "o", "s", "o", "f", "t", " ", "U", "p", "d", "a", "t", "e">>
WindowsUpdate == <<"W", "i", "n", "d", "o", "w", "s", " ", "U", "p", "d", "a", "t", "e">>
MicrosoftUpdateURL == <<"h", "t", "t", "p", "s", ":", "/", "/", "u", "p", "d", "a", "t", "e", ".", "m", "i", "c", "r", "o", "s", "o", "f", "t", ".", "c", "o", "m">>
WindowsUpdateURL == <<"h", "t", "t", "p", "s", ":", "/", "/", "w", "i", "n", "d", "o", "w", "s", "u", "p", "d", "a", "t", "e", ".", "m", "i", "c", "r", "o", "s", "o", "f", "t", ".", "c", "o", "m">>
HTTPS == <<"h", "t", "t", "p", "s", ":", "/", "/">>

\* models.Repository
Repository(name, url, secure) ==
    [Name |-> name, URL |-> url, Distribution |-> EmptyStr, Components |-> EmptyStr,
     RepoType |-> RepoTypeWindowsUpdate, IsEnabled |-> TRUE, IsSecure |-> secure]

\* getWSUSServer: "" when the policy key cannot be opened or WUServer cannot
\* be read as a string
GetWSUSServer(reg) ==
    IF reg.policy = "noKey" THEN EmptyStr
    ELSE IF reg.policy = "noValue" THEN EmptyStr
    ELSE IF reg.wuServer.type \notin {"REG_SZ", "REG_EXPAND_SZ"} THEN EmptyStr
    ELSE reg.wuServer.val

\* isMicrosoftUpdateEnabled: the key of the service can be opened
IsMicrosoftUpdateEnabled(reg) == reg.microsoftUpdate = "exists"

\* wsusServer != ""
WsusDetectedAlways(wsusServer) == TRUE
WsusDetected(wsusServer) == wsusServer # EmptyStr

GetSources(reg) ==
    LET wsusServer == GetWSUSServer(reg)
        withWsus ==
            IF WsusDetected(wsusServer)
                THEN <<Repository(WSUS, wsusServer, HasPrefix(wsusServer, HTTPS))>>
                ELSE <<>>
        update ==
            IF IsMicrosoftUpdateEnabled(reg)
                THEN Repository(MicrosoftUpdate, MicrosoftUpdateURL, TRUE)
                ELSE Repository(WindowsUpdate, WindowsUpdateURL, TRUE)
    IN [repos |-> [isNil |-> FALSE, elems |-> Append(withWsus, update)], err |-> "nil"]

\* the values WUServer may hold
ServerValues ==
    {EmptyStr, <<"w">>, HTTPS, HTTPS \o <<"w">>,
     <<"h", "t", "t", "p", ":", "/", "/", "w">>}

\* the states of the registry: the policy key, the WUServer value under it
\* and the key of the Microsoft Update service
RegistryPolicies ==
    {[policy |-> "noKey", wuServer |-> [type |-> "none", val |-> EmptyStr]],
     [policy |-> "noValue", wuServer |-> [type |-> "none", val |-> EmptyStr]]} \cup
    {[policy |-> "value", wuServer |-> [type |-> t, val |-> v]] :
        t \in {"REG_SZ", "REG_EXPAND_SZ", "REG_MULTI_SZ"}, v \in ServerValues}
Registries ==
    {[policy |-> p.policy, wuServer |-> p.wuServer, microsoftUpdate |-> m] :
        p \in RegistryPolicies, m \in {"exists", "missing"}}

\* Manager.GetRepositories: the sources, or an empty list when GetSources
\* returns an error
GetRepositories ==
    /\ srpc = "call"
    /\ sources' = GetSources(registry)
    /\ repositories' =
          IF GetSources(registry).err # "nil"
              THEN [repos |-> MakeSlice, err |-> "nil"]
              ELSE [repos |-> GetSources(registry).repos, err |-> "nil"]
    /\ srpc' = "ret"
    /\ UNCHANGED registry

\* the registry is changed between two reports
SetRegistry ==
    /\ srpc = "ret"
    /\ registry' \in Registries
    /\ srpc' = "call"
    /\ UNCHANGED <<sources, repositories>>

InitSources ==
    /\ CoreIdle /\ DnfIdle /\ RebootIdle /\ SecurityIdle
    /\ registry \in Registries
    /\ srpc = "call" /\ sources = NoSources /\ repositories = NoSources

NextSources ==
    \/ GetRepositories /\ UNCHANGED <<coreVars, dnfVars, rebootVars, securityVars>>
    \/ SetRegistry /\ UNCHANGED <<coreVars, dnfVars, rebootVars, securityVars>>

SpecSources == InitSources /\ [][NextSources]_vars

-----------------------------------------------------------------------------
(* Properties of WindowsUpdateSourceManager.GetSources *)

SourceNames == {sources.repos.elems[i].Name : i \in DOMAIN sources.repos.elems}

\* a non-empty WUServer string is configured
WUServerConfigured ==
    /\ registry.policy = "value"
    /\ registry.wuServer.type \in {"REG_SZ", "REG_EXPAND_SZ"}
    /\ registry.wuServer.val # EmptyStr

\* C17: GetSources returns a nil error and at least one repository; exactly
\* one repository is named "Microsoft Update" or "Windows Update"; "WSUS" is
\* in the list if and only if a non-empty WUServer string is configured;
\* every repository has repoType windows-update, IsEnabled = true, a
\* non-empty Name and a non-empty URL.  Manager.GetRepositories returns the
\* same list.
C17_Sources ==
    srpc = "ret" =>
        LET repos == sources.repos.elems
        IN /\ sources.err = "nil"
           /\ Len(repos) >= 1
           /\ Cardinality({i \in DOMAIN repos :
                             repos[i].Name \in {MicrosoftUpdate, WindowsUpdate}}) = 1
           /\ (WSUS \in SourceNames) <=> WUServerConfigured
           /\ \A i \in DOMAIN repos :
                 /\ repos[i].RepoType = RepoTypeWindowsUpdate
                 /\ repos[i].IsEnabled
                 /\ repos[i].Name # EmptyStr
                 /\ repos[i].URL # EmptyStr
           /\ repositories = sources

\* the policy key holds an empty WUServer string and the Microsoft Update
\* service is registered: the list is Microsoft Update alone
C17_Witness ==
    /\ srpc = "ret"
    /\ registry.policy = "value" /\ registry.wuServer = [type |-> "REG_SZ", val |-> EmptyStr]
    /\ registry.microsoftUpdate = "exists"
    /\ SourceNames = {MicrosoftUpdate}

-----------------------------------------------------------------------------
(* WindowsUpdateManager.isSecurityUpdate on one update *)

\* the categories of an update
MaxCategories == 2

\* a category that cannot be fetched
CategoryErr == [err |-> TRUE, Name |-> ReadErr]

\* what reading MsrcSeverity may give, and a category
Severities == {ReadErr, Read(EmptyStr), Read(<<"C", "r", "i", "t", "i", "c", "a", "l">>)}
Categories ==
    {CategoryErr, Category(ReadErr), Category(Read(SecurityUpdates)),
     Category(Read(CriticalUpdates)), Category(Read(EmptyStr)),
     Category(Read(<<"D", "r", "i", "v", "e", "r", "s">>))}
RECURSIVE CategoryLists(_)
CategoryLists(n) ==
    IF n = 0 THEN {<<>>}
    ELSE CategoryLists(n - 1) \cup
         {Append(l, c) : l \in {x \in CategoryLists(n - 1) : Len(x) = n - 1}, c \in Categories}
CategoryReads ==
    {CollectionErr, CollectionCountErr} \cup
    {Collection(l) : l \in CategoryLists(MaxCategories)}

IsSecurityUpdateCall ==
    /\ secPc = "call"
    /\ secResult' = IsSecurityUpdate(secUpdate)
    /\ secPc' = "ret"
    /\ UNCHANGED secUpdate

InitSecurity ==
    /\ CoreIdle /\ DnfIdle /\ RebootIdle /\ SourceIdle
    /\ secUpdate \in {Update(Read(<<"T">>), CollectionErr, IdentityErr, severity, categories) :
                        severity \in Severities, categories \in CategoryReads}
    /\ secPc = "call" /\ secResult = FALSE

NextSecurity ==
    \/ IsSecurityUpdateCall /\ UNCHANGED <<coreVars, dnfVars, rebootVars, sourceVars>>

SpecSecurity == InitSecurity /\ [][NextSecurity]_vars

-----------------------------------------------------------------------------
(* Properties of WindowsUpdateManager.isSecurityUpdate *)

\* the severity was read and is not empty
SeverityPresent == ~secUpdate.MsrcSeverity.err /\ secUpdate.MsrcSeverity.val # EmptyStr

\* the names of the categories that could be read
ReadableCategoryNames ==
    IF secUpdate.Categories.err \/ secUpdate.Categories.countErr THEN {}
    ELSE {secUpdate.Categories.items[i].Name.val :
            i \in {k \in DOMAIN secUpdate.Categories.items :
                     ~secUpdate.Categories.items[k].err
                     /\ ~secUpdate.Categories.items[k].Name.err}}

\* C18: isSecurityUpdate returns true if and only if the MSRC severity is
\* readable and non-empty or one of the readable category names is
\* "Security Updates" or "Critical Updates"; a failed read alone never makes
\* it true.
C18_SecurityIff ==
    secPc = "ret" =>
        (secResult <=>
            (SeverityPresent
             \/ ReadableCategoryNames \cap {SecurityUpdates, CriticalUpdates} # {}))

\* the severity cannot be read, the first category cannot be fetched and the
\* second is "Critical Updates": true
C18_Witness ==
    /\ secPc = "ret" /\ secResult
    /\ secUpdate.MsrcSeverity.err
    /\ secUpdate.Categories = Collection(<<CategoryErr, Category(Read(CriticalUpdates))>>)


-----------------------------------------------------------------------------
(* DNFManager.parseUpgradablePackages *)

\* the lines of a check-update output, the runs made on it
MaxCheckLines == 2
MaxRuns == 2

LastMetadata == <<"L", "a", "s", "t", " ", "m", "e", "t", "a", "d", "a", "t", "a">>
Loading == <<"L", "o", "a", "d", "i", "n", "g">>
Installed == <<"I", "n", "s", "t", "a", "l", "l", "e", "d">>
Available == <<"A", "v", "a", "i", "l", "a", "b", "l", "e">>
ArchSuffixes == {<<"x", "8", "6", "_", "6", "4">>, <<"i", "6", "8", "6">>, <<"i", "3", "8", "6">>, <<"n", "o", "a", "r", "c", "h">>, <<"a", "a", "r", "c", "h", "6", "4">>, <<"a", "r", "m", "6", "4">>}

\* strings.LastIndex for a one-character substring: the 0-based index of the
\* last c in s, -1 when there is none
LastIndex(s, c) ==
    IF \E i \in DOMAIN s : s[i] = c
        THEN (CHOOSE i \in DOMAIN s : s[i] = c /\ \A j \in DOMAIN s : s[j] = c => j <= i) - 1
        ELSE -1

\* the part of a name after its last dot is one of the architectures
HasArchSuffix(name) ==
    LET dot == LastIndex(name, ".")
    IN dot > 0 /\ SubSeq(name, dot + 2, Len(name)) \in ArchSuffixes
\* name[:idx] when the name ends in an architecture, the name otherwise
StripArch(name) ==
    IF HasArchSuffix(name) THEN SubSeq(name, 1, LastIndex(name, ".")) ELSE name

\* installedPackages[k]: the zero value for a key that is absent
Lookup(m, k) == IF k \in DOMAIN m THEN m[k] ELSE EmptyStr

\* currentVersion := installedPackages[packageName]
ExactMatchNone(inst, packageName) == EmptyStr
ExactMatch(inst, packageName) == Lookup(inst, packageName)

\* the lookup of the name without its architecture suffix
StrippedMatch(inst, packageName) ==
    IF HasArchSuffix(packageName) THEN Lookup(inst, StripArch(packageName)) ELSE EmptyStr

\* the range over installedPackages in the order ord, from position i on:
\* the version of the first key whose base name is that of the candidate
RECURSIVE ScanMatch(_, _, _, _)
ScanMatch(inst, packageName, ord, i) ==
    IF i > Len(ord) THEN EmptyStr
    ELSE IF StripArch(ord[i]) = StripArch(packageName) \/ StripArch(ord[i]) = packageName
        THEN inst[ord[i]]
        ELSE ScanMatch(inst, packageName, ord, i + 1)

\* the lines of the output of "list installed <name>" from line i on: the
\* second field of the first line that holds the name and no header word
RECURSIVE CommandLines(_, _, _)
CommandLines(lines, packageName, i) ==
    IF i > Len(lines) THEN EmptyStr
    ELSE IF /\ Contains(lines[i], packageName)
            /\ ~Contains(lines[i], Installed) /\ ~Contains(lines[i], Available)
            /\ Len(Fields(lines[i])) >= 2
        THEN Fields(lines[i])[2]
        ELSE CommandLines(lines, packageName, i + 1)
CommandMatch(answer, packageName) ==
    IF answer.err THEN EmptyStr ELSE CommandLines(answer.lines, packageName, 1)

\* the current version of a candidate, the step that gave it and whether the
\* command was run
Resolve(inst, packageName, ord, answer) ==
    LET a == ExactMatch(inst, packageName)
        b == StrippedMatch(inst, packageName)
        c == ScanMatch(inst, packageName, ord, 1)
        d == CommandMatch(answer, packageName)
    IN IF a # EmptyStr THEN [version |-> a, step |-> "a", cmd |-> FALSE]
       ELSE IF b # EmptyStr THEN [version |-> b, step |-> "b", cmd |-> FALSE]
       ELSE IF c # EmptyStr THEN [version |-> c, step |-> "c", cmd |-> FALSE]
       ELSE [version |-> d, step |-> IF d # EmptyStr THEN "d" ELSE "none", cmd |-> TRUE]

\* header lines and empty lines of check-update
CheckSkipped(line) ==
    \/ line = EmptyStr
    \/ Contains(line, LoadedPlugins)
    \/ Contains(line, LastMetadata)
    \/ HasPrefix(line, Loading)

\* strings.Contains(strings.ToLower(repo), "security")
IsSecurityRepo(repo) == Contains(ToLower(repo), Security)

\* the condition under which a candidate is appended
EmitsAlways(packageName, currentVersion, availableVersion) == TRUE
Emits(packageName, currentVersion, availableVersion) ==
    packageName # EmptyStr /\ currentVersion # EmptyStr /\ availableVersion # EmptyStr

\* what one run has done so far: the lines scanned, the packages slice, and
\* line by line the branch taken, the step that resolved the current version
\* and whether the command was run
RunStart == [scanned |-> 0, packages |-> NilSlice, log |-> <<>>]
LogEntry(branch, resolved) ==
    [branch |-> branch, step |-> resolved.step, cmd |-> resolved.cmd,
     version |-> resolved.version]
Unresolved == [version |-> EmptyStr, step |-> "none", cmd |-> FALSE]

\* the body of the scanner loop for one line, ord being the order in which
\* range visits the installed map
ScanLine(run, text, inst, answer, ord) ==
    LET line == TrimSpace(text)
        fields == Fields(line)
        resolved == Resolve(inst, fields[1], ord, answer)
        emitted == Emits(fields[1], resolved.version, fields[2])
        pkg == Package(fields[1], EmptyStr, resolved.version, fields[2], TRUE,
                       IsSecurityRepo(fields[3]))
        branch == IF CheckSkipped(line) THEN "skipped"
                  ELSE IF Len(fields) < 3 THEN "short"
                  ELSE IF emitted THEN "emitted" ELSE "dropped"
    IN [scanned |-> run.scanned + 1,
        packages |-> IF branch = "emitted" THEN AppendSlice(run.packages, pkg)
                     ELSE run.packages,
        log |-> Append(run.log,
                   IF branch \in {"emitted", "dropped"}
                       THEN LogEntry(branch, resolved)
                       ELSE LogEntry(branch, Unresolved))]

\* the whole scanner loop, ords[i] being the order of the range made for
\* line i
RECURSIVE ParseUpgradablePackages(_, _, _, _, _)
ParseUpgradablePackages(output, inst, answer, ords, run) ==
    IF run.scanned = Len(output) THEN run.packages
    ELSE ParseUpgradablePackages(output, inst, answer, ords,
             ScanLine(run, output[run.scanned + 1], inst, answer, ords[run.scanned + 1]))

CheckLine(ord) ==
    dnfUpg' = [dnfUpg EXCEPT
        !.run = ScanLine(@, dnfUpg.output[@.scanned + 1], dnfUpg.installed,
                         dnfUpg.answer, ord)]

DnfCheckLine ==
    /\ dnfUpg.pc = "scan"
    /\ dnfUpg.run.scanned < Len(dnfUpg.output)
    /\ \E ord \in Orders(DOMAIN dnfUpg.installed) : CheckLine(ord)

\* return packages
DnfCheckReturn ==
    /\ dnfUpg.pc = "scan"
    /\ dnfUpg.run.scanned = Len(dnfUpg.output)
    /\ dnfUpg' = [dnfUpg EXCEPT !.pc = "returned",
                                !.returned = Append(@, dnfUpg.run.packages)]

\* the function is called again with the same arguments
DnfCheckAgain ==
    /\ dnfUpg.pc = "returned"
    /\ Len(dnfUpg.returned) < MaxRuns
    /\ dnfUpg' = [dnfUpg EXCEPT !.pc = "scan", !.run = RunStart]

\* the installed map, as parseInstalledPackages builds it from the name.arch
\* lines of list installed: every version is a non-empty field
InstalledNames == {<<"p">>, <<"p", ".", "x", "8", "6", "_", "6", "4">>, <<"p", ".", "i", "6", "8", "6">>}
InstalledVersionOf(name) ==
    IF name = <<"p">> THEN <<"1">> ELSE IF name = <<"p", ".", "x", "8", "6", "_", "6", "4">> THEN <<"2">>
    ELSE <<"3">>
DnfInstalledMaps ==
    {[k \in K |-> InstalledVersionOf(k)] : K \in SUBSET InstalledNames}

\* the lines check-update may print: empty, headers, a line of two fields,
\* candidates "name version repo"
CheckLines ==
    {EmptyStr, LastMetadata \o <<" ", "x">>, <<"p", " ", "9">>,
     <<"p", " ", "9", " ", "u", "p", "d", "a", "t", "e", "s">>, <<"p", ".", "x", "8", "6", "_", "6", "4", " ", "9", " ", "S", "e", "c", "u", "r", "i", "t", "y">>, <<"p", ".", "n", "o", "a", "r", "c", "h", " ", "9", " ", "u", "p", "d", "a", "t", "e", "s">>, <<"r", " ", "9", " ", "r", "h", "e", "l", "-", "s", "e", "c", "u", "r", "i", "t", "y">>}
RECURSIVE CheckOutputsOf(_)
CheckOutputsOf(n) ==
    IF n = 0 THEN {<<>>}
    ELSE CheckOutputsOf(n - 1) \cup
         {Append(o, l) : o \in {x \in CheckOutputsOf(n - 1) : Len(x) = n - 1}, l \in CheckLines}

\* what "list installed <name>" answers: an error, nothing, or a header and
\* a line
CommandAnswers ==
    {[err |-> TRUE, lines |-> <<>>],
     [err |-> FALSE, lines |-> <<>>],
     [err |-> FALSE, lines |-> <<InstalledPackagesHeader, <<"r", ".", "x", "8", "6", "_", "6", "4", " ", "5", " ", "@", "s">>>>]}

InitDnfCheck ==
    /\ CombineIdle /\ ManagerIdle /\ SearchIdle /\ AptInstIdle /\ AptUpgIdle
    /\ DnfIdle /\ RebootIdle /\ SourceIdle /\ SecurityIdle
    /\ dnfGet = Idle /\ parseCall = Idle /\ com = Idle /\ upd = Idle
    /\ \E output \in CheckOutputsOf(MaxCheckLines), inst \in DnfInstalledMaps,
          answer \in CommandAnswers :
          dnfUpg = [pc |-> "scan", output |-> output, installed |-> inst,
                    answer |-> answer, run |-> RunStart, returned |-> <<>>]

earlyVars ==
    <<combineVars, managerVars, searchVars, aptInstVars, aptUpgVars,
      dnfVars, rebootVars, sourceVars, securityVars>>

NextDnfCheck ==
    \/ DnfCheckLine /\ UNCHANGED <<earlyVars, dnfGet, parseCall, com, upd>>
    \/ DnfCheckReturn /\ UNCHANGED <<earlyVars, dnfGet, parseCall, com, upd>>
    \/ DnfCheckAgain /\ UNCHANGED <<earlyVars, dnfGet, parseCall, com, upd>>

SpecDnfCheck == InitDnfCheck /\ [][NextDnfCheck]_vars


-----------------------------------------------------------------------------
(* Properties of DNFManager.parseUpgradablePackages *)

\* the fields of the i-th line of the output
CheckFields(i) == Fields(TrimSpace(dnfUpg.output[i]))
\* the lines of the run that were taken as candidates
Candidates ==
    {i \in DOMAIN dnfUpg.run.log : dnfUpg.run.log[i].branch \in {"emitted", "dropped"}}
\* the versions of the installed keys whose base name, after stripping an
\* architecture suffix, is the candidate's name or its base name
ScanVersions(name) ==
    {dnfUpg.installed[k] : k \in {x \in DOMAIN dnfUpg.installed :
                                     StripArch(x) \in {StripArch(name), name}}}

\* C22: the current version of a candidate is that of the first step that
\* succeeds among (a) exact match, (b) match of the name without its
\* architecture suffix, (c) scan of the installed keys by base name, (d) the
\* command; an exact match is never overridden and the command is run only
\* for a candidate for which (a) to (c) found nothing.
C22_ResolutionOrder ==
    dnfUpg.pc # "idle" =>
        \A i \in Candidates :
            LET name == CheckFields(i)[1]
                e == dnfUpg.run.log[i]
                a == IF name \in DOMAIN dnfUpg.installed
                         THEN dnfUpg.installed[name] ELSE EmptyStr
                b == IF HasArchSuffix(name) /\ StripArch(name) \in DOMAIN dnfUpg.installed
                         THEN dnfUpg.installed[StripArch(name)] ELSE EmptyStr
                c == ScanVersions(name)
            IN /\ a # EmptyStr => e.version = a /\ e.step = "a"
               /\ (a = EmptyStr /\ b # EmptyStr) => e.version = b /\ e.step = "b"
               /\ (a = EmptyStr /\ b = EmptyStr /\ c # {}) =>
                     e.version \in c /\ e.step = "c"
               /\ (a = EmptyStr /\ b = EmptyStr /\ c = {}) =>
                     e.version = CommandMatch(dnfUpg.answer, name)
               /\ e.cmd <=> (a = EmptyStr /\ b = EmptyStr /\ c = {})
\* a run in which one candidate was resolved by the scan and the next by the
\* command
C22_Witness ==
    /\ dnfUpg.pc = "returned"
    /\ dnfUpg.output = <<<<"p", ".", "n", "o", "a", "r", "c", "h", " ", "9", " ", "u", "p", "d", "a", "t", "e", "s">>, <<"r", " ", "9", " ", "r", "h", "e", "l", "-", "s", "e", "c", "u", "r", "i", "t", "y">>>>
    /\ DOMAIN dnfUpg.installed = {<<"p", ".", "x", "8", "6", "_", "6", "4">>}
    /\ dnfUpg.run.log[1].step = "c" /\ ~dnfUpg.run.log[1].cmd
    /\ dnfUpg.run.log[2].step = "d" /\ dnfUpg.run.log[2].cmd
    /\ Len(dnfUpg.run.packages.elems) = 2

\* c and l are the same letter, whatever the case of c
SameLetter(c, l) ==
    c = l \/ \E k \in DOMAIN LowerCase : LowerCase[k] = l /\ UpperCase[k] = c
\* s holds "security" in any case
HoldsSecurity(s) ==
    \E i \in 0..(Len(s) - Len(Security)) :
        \A k \in DOMAIN Security : SameLetter(s[i + k], Security[k])

\* the packages of the candidates from line i on whose three values are
\* non-empty
RECURSIVE Emitted(_)
Emitted(i) ==
    IF i > Len(dnfUpg.run.log) THEN <<>>
    ELSE IF /\ i \in Candidates
            /\ CheckFields(i)[1] # EmptyStr /\ CheckFields(i)[2] # EmptyStr
            /\ dnfUpg.run.log[i].version # EmptyStr
        THEN <<Package(CheckFields(i)[1], EmptyStr, dnfUpg.run.log[i].version,
                       CheckFields(i)[2], TRUE, HoldsSecurity(CheckFields(i)[3]))>>
             \o Emitted(i + 1)
        ELSE Emitted(i + 1)

\* C23: a candidate is emitted only if its name, resolved current version and
\* available version are all non-empty; a candidate that fails this is
\* dropped and the other lines are not affected; every emitted candidate has
\* needsUpdate = true and isSecurityUpdate equal to whether the repo token
\* holds "security" in any case.
C23_EmittedCandidates ==
    dnfUpg.pc # "idle" =>
        /\ dnfUpg.run.packages.elems = Emitted(1)
        /\ \A i \in Candidates :
              dnfUpg.run.log[i].branch = "dropped" <=> dnfUpg.run.log[i].version = EmptyStr
\* a candidate whose current version no step found, dropped, and after it a
\* candidate of a repo named Security, emitted
C23_Witness ==
    /\ dnfUpg.pc = "returned"
    /\ dnfUpg.output = <<<<"r", " ", "9", " ", "r", "h", "e", "l", "-", "s", "e", "c", "u", "r", "i", "t", "y">>, <<"p", ".", "x", "8", "6", "_", "6", "4", " ", "9", " ", "S", "e", "c", "u", "r", "i", "t", "y">>>>
    /\ dnfUpg.run.log[1].branch = "dropped" /\ dnfUpg.run.log[1].cmd
    /\ dnfUpg.run.log[2].branch = "emitted"
    /\ Len(dnfUpg.run.packages.elems) = 1
    /\ dnfUpg.run.packages.elems[1].IsSecurityUpdate
    /\ dnfUpg.run.packages.elems[1].CurrentVersion = <<"2">>

\* C29: two runs on the same check-update output, installed map and command
\* answer return the same candidates with the same current versions.
C29_Deterministic ==
    (dnfUpg.pc # "idle" /\ Len(dnfUpg.returned) = 2) =>
        dnfUpg.returned[1] = dnfUpg.returned[2]


-----------------------------------------------------------------------------
(* DNFManager.GetPackages *)

\* len(checkOutput) > 0: the exit status of check-update is dropped
CheckHasOutputOnSuccess(check) == check.exit = "0" /\ Len(check.output) > 0
CheckHasOutput(check) == Len(check.output) > 0

\* list installed has run: the map is parsed from its output unless it failed
DnfGetList ==
    /\ dnfGet.pc = "start"
    /\ dnfGet' = [dnfGet EXCEPT
           !.pc = "listed",
           !.installedPackages =
               IF dnfGet.list.err THEN <<>>
               ELSE DnfParseInstalledPackages(dnfGet.list.output, <<>>)]

\* check-update has run: its output is parsed when there is any
DnfGetCheckUpdate ==
    /\ dnfGet.pc = "listed"
    /\ \E ords \in [1..Len(dnfGet.check.output) -> Orders(DOMAIN dnfGet.installedPackages)] :
          dnfGet' = [dnfGet EXCEPT
              !.pc = "checked",
              !.parsed = CheckHasOutput(dnfGet.check),
              !.upgradablePackages =
                  IF CheckHasOutput(dnfGet.check)
                      THEN ParseUpgradablePackages(dnfGet.check.output,
                               dnfGet.installedPackages, dnfGet.answer, ords, RunStart)
                      ELSE MakeSlice]

\* CombinePackageData is called on the two and its result returned
DnfGetCombine ==
    /\ dnfGet.pc = "checked"
    /\ dnfGet' = [dnfGet EXCEPT
           !.pc = "returned",
           !.combined = [called |-> TRUE, installedPackages |-> dnfGet.installedPackages,
                         upgradablePackages |-> dnfGet.upgradablePackages]]

\* what list installed may answer: its output and whether it failed
ListOutputs ==
    {<<>>, <<InstalledPackagesHeader, <<"p", ".", "x", "8", "6", "_", "6", "4", " ", "2", " ", "@", "r">>>>,
     <<<<"p", ".", "x", "8", "6", "_", "6", "4", " ", "2", " ", "@", "r">>, <<"p", ".", "i", "6", "8", "6", " ", "3", " ", "@", "r">>>>}
ListAnswers == {[err |-> e, output |-> o] : e \in BOOLEAN, o \in ListOutputs}
\* what check-update may answer: exit status 0 without updates, 100 with
\* updates, 1 on an error; a command that could not be started has no output
CheckAnswers ==
    {[exit |-> x, output |-> o] : x \in {"0", "100", "1"},
                                  o \in CheckOutputsOf(MaxCheckLines)}
    \cup {[exit |-> "notStarted", output |-> <<>>]}

NotCombined == [called |-> FALSE, installedPackages |-> <<>>, upgradablePackages |-> NilSlice]

InitDnfGet ==
    /\ CombineIdle /\ ManagerIdle /\ SearchIdle /\ AptInstIdle /\ AptUpgIdle
    /\ DnfIdle /\ RebootIdle /\ SourceIdle /\ SecurityIdle
    /\ dnfUpg = Idle /\ parseCall = Idle /\ com = Idle /\ upd = Idle
    /\ \E list \in ListAnswers, check \in CheckAnswers, answer \in CommandAnswers :
          dnfGet = [pc |-> "start", list |-> list, check |-> check, answer |-> answer,
                    installedPackages |-> <<>>, upgradablePackages |-> NilSlice,
                    parsed |-> FALSE, combined |-> NotCombined]

NextDnfGet ==
    \/ DnfGetList /\ UNCHANGED <<earlyVars, dnfUpg, parseCall, com, upd>>
    \/ DnfGetCheckUpdate /\ UNCHANGED <<earlyVars, dnfUpg, parseCall, com, upd>>
    \/ DnfGetCombine /\ UNCHANGED <<earlyVars, dnfUpg, parseCall, com, upd>>

SpecDnfGet == InitDnfGet /\ [][NextDnfGet]_vars

\* the lists parseUpgradablePackages can return for the check-update output
\* and the installed map of the call
ParsedLists ==
    {ParseUpgradablePackages(dnfGet.check.output, dnfGet.installedPackages,
                             dnfGet.answer, ords, RunStart) :
         ords \in [1..Len(dnfGet.check.output) -> Orders(DOMAIN dnfGet.installedPackages)]}

\* C24: whatever the exit status of check-update, the upgradable list is
\* parsed from its output exactly when that output is non-empty and is the
\* empty list otherwise; a failed installed listing gives an empty installed
\* map, and the upgradable listing and the merge run all the same.
C24_CheckUpdateOutput ==
    dnfGet.pc \in {"checked", "returned"} =>
        /\ dnfGet.parsed <=> dnfGet.check.output # <<>>
        /\ dnfGet.check.output # <<>> => dnfGet.upgradablePackages \in ParsedLists
        /\ dnfGet.check.output = <<>> => dnfGet.upgradablePackages = MakeSlice
        /\ dnfGet.list.err => dnfGet.installedPackages = <<>>
        /\ dnfGet.pc = "returned" =>
              /\ dnfGet.combined.called
              /\ dnfGet.combined.installedPackages = dnfGet.installedPackages
              /\ dnfGet.combined.upgradablePackages = dnfGet.upgradablePackages
\* list installed failed with some output and check-update exited with 100:
\* a candidate was parsed and the merge was called on an empty installed map
C24_Witness ==
    /\ dnfGet.pc = "returned"
    /\ dnfGet.list.err /\ dnfGet.list.output # <<>>
    /\ dnfGet.check.exit = "100"
    /\ dnfGet.parsed
    /\ Len(dnfGet.upgradablePackages.elems) = 1
    /\ dnfGet.combined.called /\ dnfGet.combined.installedPackages = <<>>

-----------------------------------------------------------------------------
(* WindowsUpdateManager.parseUpdate called on one result item *)

\* what reading the title, the KB article ids and the identity may give
Titles == {ReadErr, Read(EmptyStr), Read(<<"T">>)}
KBCollections ==
    {CollectionErr, CollectionCountErr, Collection(<<>>),
     Collection(<<Read(<<"5">>)>>), Collection(<<Read(<<"5">>), Read(<<"7">>)>>),
     Collection(<<ReadErr, Read(<<"7">>)>>),
     Collection(<<Read(EmptyStr)>>), Collection(<<Read(EmptyStr), Read(<<"7">>)>>)}
Identities ==
    {IdentityErr,
     IdentityOf(ReadErr, Read(<<"g">>)),
     IdentityOf([err |-> FALSE, val |-> 12], Read(<<"g">>)),
     IdentityOf([err |-> FALSE, val |-> 12], ReadErr),
     IdentityOf([err |-> FALSE, val |-> 0], Read(<<"g">>))}

ParseUpdateCall ==
    /\ parseCall.pc = "call"
    /\ parseCall' = [parseCall EXCEPT
           !.pc = "ret",
           !.result = ParseUpdate(parseCall.update, parseCall.criteria)]

InitParseUpdate ==
    /\ CombineIdle /\ ManagerIdle /\ SearchIdle /\ AptInstIdle /\ AptUpgIdle
    /\ DnfIdle /\ RebootIdle /\ SourceIdle /\ SecurityIdle
    /\ dnfUpg = Idle /\ dnfGet = Idle /\ com = Idle /\ upd = Idle
    /\ \E title \in Titles, kbs \in KBCollections, identity \in Identities,
          crit \in {CriteriaInstalled, CriteriaAvailable} :
          parseCall = [pc |-> "call", criteria |-> crit, result |-> NoPackage,
                       update |-> Update(title, kbs, identity, ReadErr, CollectionErr)]

NextParseUpdate ==
    \/ ParseUpdateCall /\ UNCHANGED <<earlyVars, dnfUpg, dnfGet, com, upd>>

SpecParseUpdate == InitParseUpdate /\ [][NextParseUpdate]_vars

\* the item was accepted: parseUpdate returned a package
Accepted == parseCall.pc = "ret" /\ ~parseCall.result.isNil
\* the version token of the returned package
VersionToken ==
    IF Contains(parseCall.criteria, CriteriaInstalled)
        THEN parseCall.result.pkg.CurrentVersion
        ELSE parseCall.result.pkg.AvailableVersion
\* the KB article ids of the item that can be read, in index order
RECURSIVE ReadableFrom(_, _)
ReadableFrom(items, i) ==
    IF i > Len(items) THEN <<>>
    ELSE IF items[i].err THEN ReadableFrom(items, i + 1)
    ELSE <<items[i].val>> \o ReadableFrom(items, i + 1)
ReadableKBs ==
    LET kbs == parseCall.update.KBArticleIDs
    IN IF kbs.err \/ kbs.countErr THEN <<>> ELSE ReadableFrom(kbs.items, 1)
\* description and version token as C25 gives them
DescriptionAndVersion ==
    LET identity == parseCall.update.Identity
    IN /\ parseCall.result.pkg.Description = parseCall.update.Title.val
       /\ (~identity.err /\ ~identity.RevisionNumber.err /\ ~identity.UpdateID.err) =>
             VersionToken = identity.UpdateID.val \o <<".">>
                               \o FormatInt(identity.RevisionNumber.val)
       /\ (~identity.err /\ ~identity.RevisionNumber.err /\ identity.UpdateID.err) =>
             VersionToken = <<"r", "e", "v", ".">> \o FormatInt(identity.RevisionNumber.val)

\* C25 as stated: the name of an accepted item is "KB" followed by the first
\* KB article id when the item has at least one readable KB id and is the
\* title otherwise; the description is the title; the version token is
\* "<updateID>.<revisionNumber>" when the update id is readable and
\* "rev.<revisionNumber>" when only the revision number is.
C25_AnyReadableKB ==
    Accepted =>
        /\ parseCall.result.pkg.Name =
              IF ReadableKBs # <<>> THEN <<"K", "B">> \o ReadableKBs[1]
              ELSE parseCall.update.Title.val
        /\ DescriptionAndVersion

\* C25 amended: the name of an accepted item is "KB" followed by the first
\* KB article id when the id collection, its count and its first id can be
\* read and that id is not empty, and is the title otherwise; the description
\* is the title; the version token is "<updateID>.<revisionNumber>" when the
\* revision number and the update id are readable and "rev.<revisionNumber>"
\* when only the revision number is.
C25_FirstKB ==
    Accepted =>
        LET kbs == parseCall.update.KBArticleIDs
            first == ~kbs.err /\ ~kbs.countErr /\ Len(kbs.items) > 0
                        /\ ~kbs.items[1].err /\ kbs.items[1].val # EmptyStr
        IN /\ parseCall.result.pkg.Name =
                 IF first THEN <<"K", "B">> \o kbs.items[1].val
                 ELSE parseCall.update.Title.val
           /\ DescriptionAndVersion
\* an available update with two KB ids and a readable identity
C25_Witness ==
    /\ Accepted
    /\ parseCall.criteria = CriteriaAvailable
    /\ Len(parseCall.update.KBArticleIDs.items) = 2
    /\ parseCall.result.pkg.Name = <<"K", "B", "5">>
    /\ parseCall.result.pkg.Description = <<"T">>
    /\ parseCall.result.pkg.AvailableVersion = <<"g", ".", "1", "2">>

-----------------------------------------------------------------------------
(* WindowsUpdateManager.searchUpdates, call by call *)

\* an event of the run: the thread is pinned or unpinned, COM is initialized
\* or uninitialized, a COM call is made, a COM object is acquired or released;
\* what it is about is a tuple, <<"item", i>> for the i-th result item
Event(op, arg) == [op |-> op, arg |-> arg]
\* defer: the deferred calls run last in, first out
DeferQueue(stack, call) == Append(stack, call)
Defer(stack, call) == <<call>> \o stack

\* the COM object each call before the loop hands out
Acquired(call) ==
    IF call = "CreateObject" THEN "unknown"
    ELSE IF call = "QueryInterface" THEN "session"
    ELSE IF call = "CreateUpdateSearcher" THEN "searcher"
    ELSE IF call = "Search" THEN "result"
    ELSE IF call = "Updates" THEN "updates"
    ELSE "none"

\* runtime.LockOSThread(); defer runtime.UnlockOSThread()
ComLock ==
    /\ com.pc = "start"
    /\ com' = [com EXCEPT !.pc = "CoInitializeEx",
                          !.events = Append(@, Event("lock", <<"thread">>)),
                          !.defers = Defer(@, Event("unlock", <<"thread">>))]

\* ole.CoInitializeEx: on a failure other than S_FALSE return, else defer
\* ole.CoUninitialize()
ComCoInitializeEx ==
    /\ com.pc = "CoInitializeEx"
    /\ \E r \in CoInitResults :
          com' = [com EXCEPT
              !.pc = IF CoInitFails(r) THEN "return" ELSE Calls[2],
              !.coInit = r,
              !.events = Append(@, Event("coinit", <<r>>)),
              !.defers = IF CoInitFails(r) THEN @ ELSE Defer(@, Event("couninit", <<"com">>))]

\* one of the calls from CreateObject to Count: on an error return, else
\* defer the Release of the object it handed out
ComCall ==
    /\ \E k \in 2..Len(Calls) : com.pc = Calls[k]
    /\ \E failed \in BOOLEAN, c \in 0..MaxUpdates :
          LET call == com.pc
              k == CHOOSE n \in DOMAIN Calls : Calls[n] = call
              object == Acquired(call)
          IN com' = [com EXCEPT
                 !.pc = IF failed THEN "return"
                        ELSE IF k = Len(Calls) THEN "loop" ELSE Calls[k + 1],
                 !.count = IF ~failed /\ k = Len(Calls) THEN c ELSE @,
                 !.events = IF failed \/ object = "none"
                                THEN Append(@, Event("call", <<call>>))
                                ELSE @ \o <<Event("call", <<call>>), Event("acquire", <<object>>)>>,
                 !.defers = IF failed \/ object = "none" THEN @
                            ELSE Defer(@, Event("release", <<object>>))]

\* one iteration of the loop: Item, parseUpdate, update.Release()
ComItem ==
    /\ com.pc = "loop"
    /\ com.i < com.count
    /\ \E failed \in BOOLEAN :
          com' = [com EXCEPT
              !.i = @ + 1,
              !.events = IF failed THEN Append(@, Event("call", <<"Item">>))
                         ELSE @ \o <<Event("call", <<"Item">>), Event("acquire", <<"item", com.i>>),
                                     Event("call", <<"parseUpdate">>),
                                     Event("release", <<"item", com.i>>)>>]

\* return packages, nil
ComLoopEnd ==
    /\ com.pc = "loop"
    /\ com.i = com.count
    /\ com' = [com EXCEPT !.pc = "return"]

\* the function returns: the deferred calls run, the latest first
ComDeferred ==
    /\ com.pc = "return"
    /\ com' = IF com.defers = <<>> THEN [com EXCEPT !.pc = "done"]
              ELSE [com EXCEPT !.events = Append(@, Head(com.defers)),
                               !.defers = Tail(@)]

InitCom ==
    /\ CombineIdle /\ ManagerIdle /\ SearchIdle /\ AptInstIdle /\ AptUpgIdle
    /\ DnfIdle /\ RebootIdle /\ SourceIdle /\ SecurityIdle
    /\ dnfUpg = Idle /\ dnfGet = Idle /\ parseCall = Idle /\ upd = Idle
    /\ com = [pc |-> "start", coInit |-> "none", count |-> 0, i |-> 0,
              events |-> <<>>, defers |-> <<>>]

NextCom ==
    \/ ComLock /\ UNCHANGED <<earlyVars, dnfUpg, dnfGet, parseCall, upd>>
    \/ ComCoInitializeEx /\ UNCHANGED <<earlyVars, dnfUpg, dnfGet, parseCall, upd>>
    \/ ComCall /\ UNCHANGED <<earlyVars, dnfUpg, dnfGet, parseCall, upd>>
    \/ ComItem /\ UNCHANGED <<earlyVars, dnfUpg, dnfGet, parseCall, upd>>
    \/ ComLoopEnd /\ UNCHANGED <<earlyVars, dnfUpg, dnfGet, parseCall, upd>>
    \/ ComDeferred /\ UNCHANGED <<earlyVars, dnfUpg, dnfGet, parseCall, upd>>

SpecCom == InitCom /\ [][NextCom]_vars

\* the positions of the events of one kind
At(op, arg) == {n \in DOMAIN com.events : com.events[n] = Event(op, arg)}
Ops(op) == {n \in DOMAIN com.events : com.events[n].op = op}
\* the COM objects acquired during the run
Objects == {com.events[n].arg : n \in Ops("acquire")}

\* C26: in every run of searchUpdates, also one that returns an error early,
\* the thread is pinned before COM is initialized and every COM call is made
\* while it is pinned; COM is uninitialized exactly when initialization
\* succeeded or reported S_FALSE; every COM object acquired is released
\* exactly once, before COM is uninitialized; the thread is unpinned last.
C26_ComDiscipline ==
    com.pc = "done" =>
        /\ At("lock", <<"thread">>) = {1}
        /\ At("unlock", <<"thread">>) = {Len(com.events)}
        /\ Ops("coinit") = {2}
        /\ Cardinality(Ops("couninit")) = IF com.coInit \in {"S_OK", "S_FALSE"} THEN 1 ELSE 0
        /\ \A o \in Objects :
              /\ Cardinality(At("acquire", o)) = 1
              /\ Cardinality(At("release", o)) = 1
              /\ \A a \in At("acquire", o), r \in At("release", o), u \in Ops("couninit") :
                    a < r /\ r < u
        /\ \A r \in Ops("release") : com.events[r].arg \in Objects
        /\ \A n \in Ops("call") \cup Ops("acquire") \cup Ops("release") :
              /\ \E c \in Ops("coinit") : c < n
              /\ \A u \in Ops("couninit") : n < u
\* a run after CoInitializeEx reported S_FALSE that enumerated two items, one
\* of which could not be fetched
C26_Witness ==
    /\ com.pc = "done"
    /\ com.coInit = "S_FALSE"
    /\ com.count = 2
    /\ Cardinality(Ops("acquire")) = 6
    /\ Cardinality(Ops("release")) = 6
    /\ Cardinality(Ops("couninit")) = 1

-----------------------------------------------------------------------------
(* Further properties of the APT parsers *)

\* one step of the scanner over a line that begins with a space or a tab
C27_Step ==
    (instScanned' = instScanned + 1 /\ instLine' # EmptyStr /\ IsSpace(instLine'[1])) =>
        DOMAIN aptInstalled' \subseteq DOMAIN aptInstalled
\* C27: every key of the map parseInstalledPackages returns is the first
\* token of a non-indented line: a line that begins with a space or a tab
\* never creates an installed entry, also when it is the first line of the
\* input or follows a malformed line that cleared the current package.
C27_IndentedNeverCreates == [][C27_Step]_vars

\* the index of the first field that begins with c, 0 when there is none
FirstFieldWith(fields, c) ==
    IF \E i \in DOMAIN fields : HasPrefix(fields[i], <<c>>)
        THEN CHOOSE i \in DOMAIN fields :
                 /\ HasPrefix(fields[i], <<c>>)
                 /\ \A j \in 1..(i - 1) : ~HasPrefix(fields[j], <<c>>)
        ELSE 0

\* C28: the current version of an emitted candidate comes from a bracketed
\* span that precedes the "(" token of its line; an "Inst" line of a new
\* installation, whose only bracket is the architecture annotation after the
\* "(", emits no candidate.
C28_BracketBeforeParen ==
    upgBranch = "emitted" =>
        LET fields == Fields(TrimSpace(upgLine))
            bracket == FirstFieldWith(fields, "[")
            paren == FirstFieldWith(fields, "(")
        IN bracket > 0 /\ paren > 0 /\ bracket < paren

-----------------------------------------------------------------------------
(* updateAgent: the files at executablePath, executablePath.old,           *)
(* executablePath.new and the backup                                       *)

\* the function returns err ("nil" for success)
UpdReturn(u, err) == [u EXCEPT !.pc = "returned", !.err = err]

\* the checks and downloads before any file is touched: a recent update, the
\* executable path, the version of the server (whose failure is not fatal),
\* the binary of the server
UpdFetch ==
    /\ upd.pc = "start"
    /\ \E outcome \in {"update skipped", "failed to get executable path", "nil",
                       "failed to get latest binary information",
                       "no binary data received from server", "proceed"},
          versionKnown \in BOOLEAN :
          /\ outcome = "nil" => versionKnown
          /\ upd' = IF outcome = "proceed"
                        THEN [upd EXCEPT !.pc = "backup", !.versionKnown = versionKnown]
                        ELSE UpdReturn([upd EXCEPT !.versionKnown = versionKnown], outcome)

\* cleanupOldBackups, then copyFile(executablePath, backupPath)
UpdBackup ==
    /\ upd.pc = "backup"
    /\ \E ok \in BOOLEAN :
          upd' = IF ok THEN [upd EXCEPT !.pc = "write", !.backup = TRUE]
                 ELSE UpdReturn(upd, "failed to create backup")

\* os.WriteFile(tempPath, newAgentData, 0755): a failed write may leave a
\* partial file
UpdWrite ==
    /\ upd.pc = "write"
    /\ \/ upd' = [upd EXCEPT !.pc = "validate", !.temp = "new"]
       \/ \E left \in {upd.temp, "partial"} :
             upd' = UpdReturn([upd EXCEPT !.temp = left], "failed to write new agent")

\* the new executable is run with check-version; on failure the temporary
\* file is removed, which may fail; the version it prints is only logged
UpdValidate ==
    /\ upd.pc = "validate"
    /\ \/ upd' = [upd EXCEPT !.pc = "aside"]
       \/ \E removed \in BOOLEAN :
             upd' = UpdReturn([upd EXCEPT !.temp = IF removed THEN "none" ELSE @],
                              "new agent executable is invalid")

\* os.Remove(oldPath), its error dropped, then os.Rename(executablePath,
\* oldPath): on failure the temporary file is removed, which may fail
UpdMoveAside ==
    /\ upd.pc = "aside"
    /\ \E oldRemoved \in BOOLEAN, renamed \in BOOLEAN, tempRemoved \in BOOLEAN :
          LET old == IF oldRemoved THEN "none" ELSE upd.old
          IN upd' = IF renamed
                        THEN [upd EXCEPT !.pc = "install", !.exe = "none", !.old = upd.exe]
                        ELSE UpdReturn([upd EXCEPT !.old = old,
                                            !.temp = IF tempRemoved THEN "none" ELSE @],
                                       "failed to move current executable aside")

\* os.Rename(tempPath, executablePath): on failure os.Rename(oldPath,
\* executablePath) is tried, its error dropped, and the error returned
UpdInstall ==
    /\ upd.pc = "install"
    /\ \/ upd' = [upd EXCEPT !.pc = "cleanup", !.exe = upd.temp, !.temp = "none"]
       \/ \E restored \in BOOLEAN :
             upd' = UpdReturn(IF restored
                                  THEN [upd EXCEPT !.exe = upd.old, !.old = "none"]
                                  ELSE upd,
                              "failed to install new executable")

\* os.Remove(oldPath), its error dropped; markRecentUpdate; return nil
UpdCleanup ==
    /\ upd.pc = "cleanup"
    /\ \E removed \in BOOLEAN :
          upd' = UpdReturn([upd EXCEPT !.old = IF removed THEN "none" ELSE @,
                                       !.marked = TRUE], "nil")

InitUpd ==
    /\ CombineIdle /\ ManagerIdle /\ SearchIdle /\ AptInstIdle /\ AptUpgIdle
    /\ DnfIdle /\ RebootIdle /\ SourceIdle /\ SecurityIdle
    /\ dnfUpg = Idle /\ dnfGet = Idle /\ parseCall = Idle /\ com = Idle
    /\ \E old \in {"none", "stale"}, temp \in {"none", "stale"} :
          upd = [pc |-> "start", exe |-> "current", old |-> old, temp |-> temp,
                 backup |-> FALSE, versionKnown |-> FALSE, marked |-> FALSE,
                 err |-> "none"]

NextUpd ==
    \/ UpdFetch /\ UNCHANGED <<earlyVars, dnfUpg, dnfGet, parseCall, com>>
    \/ UpdBackup /\ UNCHANGED <<earlyVars, dnfUpg, dnfGet, parseCall, com>>
    \/ UpdWrite /\ UNCHANGED <<earlyVars, dnfUpg, dnfGet, parseCall, com>>
    \/ UpdValidate /\ UNCHANGED <<earlyVars, dnfUpg, dnfGet, parseCall, com>>
    \/ UpdMoveAside /\ UNCHANGED <<earlyVars, dnfUpg, dnfGet, parseCall, com>>
    \/ UpdInstall /\ UNCHANGED <<earlyVars, dnfUpg, dnfGet, parseCall, com>>
    \/ UpdCleanup /\ UNCHANGED <<earlyVars, dnfUpg, dnfGet, parseCall, com>>

SpecUpd == InitUpd /\ [][NextUpd]_vars

\* C30: whenever updateAgent returns, with nil or with an error, an
\* executable file is at the executable path: the original after a failure
\* before the swap and after a failed installation of the new binary, the new
\* binary after success.
C30_ExecutablePresent ==
    upd.pc = "returned" =>
        /\ upd.exe \in {"current", "new"}
        /\ (upd.err # "nil" \/ ~upd.marked) => upd.exe = "current"

====
